---- MODULE Spec2Model ----
(***************************************************************************)
(* Robin Hood hash table with incremental rehashing (lib/isc/hashmap.c).   *)
(* The map is modelled slot by slot: both tables, the active index         *)
(* hindex, the rehashing cursor hiter and the entry count.  Every loop of  *)
(* the source is a recursive operator that follows the loop body.          *)
(***************************************************************************)
EXTENDS Integers, Sequences, FiniteSets, TLC

(* ------------------------------ bounds --------------------------------- *)

\* number of distinct keys the callers use
NumKeys == 3
\* number of distinct values the callers store
NumValues == 2
\* width of a hash value in bits (uint32_t in the source, reduced here)
HashWidth == 4
\* number of threads that use the TLS context cache
NumThreads == 2
\* number of distinct names the cache is asked about
NumNames == 2
\* number of TLS contexts the callers create
MaxCtx == 2
\* number of isc_tlsctx_cache_attach calls the callers make
MaxAttach == 2
\* the largest tls_versions mask isc_tlsctx_set_protocols is called with
MaxVersionsMask == 7

\* the records of an offered ALPN list
MaxRecords == 3
\* the bytes of an ALPN list that need not be well-formed
MaxInLen == 5

\* the distinct keys added to a map that only grows
MaxAdds == 100
\* the largest bits a growing map is created with
MaxCreateBits == 4
\* the keys added to the map of one long probe chain, its bits and the
\* deletions made from it
MaxChain == 7
ShiftBits == 3
MaxDeletes == 2
\* the keys of the map of colliding keys and the bits it is created with
MaxWideKeys == 5
WideBits == 2

(* ------------------------- program constants --------------------------- *)

HASHMAP_NUM_TABLES == 2
HASHMAP_NO_BITS == 0
HASHMAP_MIN_BITS == 1
HASHMAP_MAX_BITS == 32

NULL == 0

\* the process has not aborted
NoAbort == "none"

\* a failed REQUIRE, INSIST or a FATAL_ERROR ends the process at site
Abort(st, site) == [st EXCEPT !.aborted = site]

\* what a call that never returns leaves as its result
Diverges == "diverges"

ISC_R_SUCCESS == "ISC_R_SUCCESS"
ISC_R_EXISTS == "ISC_R_EXISTS"
ISC_R_NOTFOUND == "ISC_R_NOTFOUND"
ISC_R_NOMORE == "ISC_R_NOMORE"

\* APPROX_90_PERCENT that lets a table fill up
APPROX_ALL(x) == (x * 1024) \div 1024
APPROX_90_PERCENT(x) == (x * 921) \div 1024

APPROX_40_PERCENT(x) == (x * 409) \div 1024
APPROX_20_PERCENT(x) == (x * 205) \div 1024

HASHSIZE(bits) == 2 ^ bits

(* ------------------------------ inputs --------------------------------- *)

\* key pointers handed to the map (NULL is never a key)
Keys == 1 .. NumKeys
\* value handles
Values == 1 .. NumValues
\* the bits arguments isc_hashmap_create is called with
CreateBits == {1, 2, 4}
\* hash values the keyed hash takes on the keys: both ends of the range,
\* so that home slots collide and probe paths wrap around the table end
HashVals == {0, (2 ^ HashWidth) - 2, (2 ^ HashWidth) - 1}
\* the keyed hash functions distinguishable up to renaming of the keys
HashFunctions ==
    {f \in [Keys -> HashVals] :
        \A k \in Keys : (k + 1 \in Keys) => (f[k] <= f[k + 1])}

\* the bytes a key pointer points to: one letter per key; the keys come in
\* pairs that differ only in case: "a", "A", "b", "B", ...
KeyBytes(key) ==
    <<IF key % 2 = 1 THEN 97 + (key \div 2) ELSE 65 + ((key - 1) \div 2)>>
KeySize(key) == Len(KeyBytes(key))

(* --------------------------- data structures --------------------------- *)

\* (hashmap_node_t){ 0 }
ZeroNode == [key |-> NULL, value |-> NULL, hashval |-> 0, psl |-> 0,
             keysize |-> 0]

\* (hashmap_table_t){ .hashbits = HASHMAP_NO_BITS }: table == NULL
NoTable == [size |-> 0, hashbits |-> HASHMAP_NO_BITS, hashmask |-> 0,
            table |-> <<>>]

\* &tables[idx].table[pos]
NodeAt(hm, idx, pos) == hm.tables[idx].table[pos + 1]

\* tables[idx].table[pos] = node
StoreNode(hm, idx, pos, node) ==
    [hm EXCEPT !.tables[idx].table[pos + 1] = node]

hashmap_nexttable(idx) == IF idx = 0 THEN 1 ELSE 0

rehashing_in_progress(hm) ==
    hm.tables[hashmap_nexttable(hm.hindex)].table # <<>>

try_nexttable(hm, idx) == idx = hm.hindex /\ rehashing_in_progress(hm)

hashmap_node_init(hashval, key, keysize, value) ==
    [key |-> key, value |-> value, hashval |-> hashval, psl |-> 0,
     keysize |-> keysize]

\* high-bits extraction of a hash value: the home slot in a table of
\* 2^bits slots
isc_hash_bits32(val, bits) == val \div (2 ^ (HashWidth - bits))

hashmap_create_table(hm, idx, bits) ==
    [hm EXCEPT !.tables[idx] =
        [size |-> HASHSIZE(bits), hashbits |-> bits,
         hashmask |-> HASHSIZE(bits) - 1,
         table |-> [i \in 1 .. HASHSIZE(bits) |-> ZeroNode]]]

\* number of non-empty nodes of tables[idx]
UsedSlots(hm, idx) ==
    Cardinality({i \in 1 .. hm.tables[idx].size :
                    hm.tables[idx].table[i].key # NULL})

\* hashmap_free_table that never clears the nodes of the table it frees
hashmap_free_table_uncounted(hm, idx, cleanup) ==
    [hm EXCEPT !.tables[idx] = NoTable]

hashmap_free_table(hm, idx, cleanup) ==
    [hm EXCEPT !.tables[idx] = NoTable,
               !.count = IF cleanup THEN @ - UsedSlots(hm, idx) ELSE @]

\* memcmp(a, b, n) == 0
BytesEqual(a, b, n) == \A i \in 1 .. n : a[i] = b[i]

\* isc_ascii_tolower
isc_ascii_tolower(c) == IF c >= 65 /\ c <= 90 THEN c + 32 ELSE c

\* isc_ascii_lowerequal(a, b, n)
isc_ascii_lowerequal(a, b, n) ==
    \A i \in 1 .. n : isc_ascii_tolower(a[i]) = isc_ascii_tolower(b[i])

\* hashmap_match that compares the bytes exactly in every map
hashmap_match_exact(node, hashval, key, keysize, case_sensitive) ==
    /\ node.hashval = hashval
    /\ node.keysize = keysize
    /\ BytesEqual(KeyBytes(node.key), KeyBytes(key), keysize)

hashmap_match(node, hashval, key, keysize, case_sensitive) ==
    /\ node.hashval = hashval
    /\ node.keysize = keysize
    /\ IF case_sensitive
         THEN BytesEqual(KeyBytes(node.key), KeyBytes(key), keysize)
         ELSE isc_ascii_lowerequal(KeyBytes(node.key), KeyBytes(key),
                                   keysize)

(* ------------------------------- lookup -------------------------------- *)

\* result of a lookup that found nothing (NULL node pointer)
NoNode == [found |-> FALSE, pos |-> 0, psl |-> 0, idx |-> 0]

\* hashmap_find_loop that does not go on to the other table
RECURSIVE hashmap_find_loop_one_table(_, _, _, _, _, _)
hashmap_find_loop_one_table(hm, hashval, key, keysize, idx, psl) ==
    LET hash == isc_hash_bits32(hashval, hm.tables[idx].hashbits)
        pos == (hash + psl) % (hm.tables[idx].hashmask + 1)
        node == NodeAt(hm, idx, pos)
    IN  IF node.key = NULL \/ psl > node.psl
          THEN NoNode
          ELSE IF hashmap_match(node, hashval, key, keysize,
                                hm.case_sensitive)
                 THEN [found |-> TRUE, pos |-> pos, psl |-> psl,
                       idx |-> idx]
                 ELSE hashmap_find_loop_one_table(hm, hashval, key,
                                                  keysize, idx, psl + 1)

RECURSIVE hashmap_find_loop(_, _, _, _, _, _)
hashmap_find_loop(hm, hashval, key, keysize, idx, psl) ==
    LET hash == isc_hash_bits32(hashval, hm.tables[idx].hashbits)
        pos == (hash + psl) % (hm.tables[idx].hashmask + 1)
        node == NodeAt(hm, idx, pos)
    IN  IF node.key = NULL \/ psl > node.psl
          THEN IF try_nexttable(hm, idx)
                 THEN hashmap_find_loop(hm, hashval, key, keysize,
                                        hashmap_nexttable(idx), 0)
                 ELSE NoNode
          ELSE IF hashmap_match(node, hashval, key, keysize,
                                hm.case_sensitive)
                 THEN [found |-> TRUE, pos |-> pos, psl |-> psl,
                       idx |-> idx]
                 ELSE hashmap_find_loop(hm, hashval, key, keysize, idx,
                                        psl + 1)

hashmap_find(hm, hashval, key, keysize, idx) ==
    hashmap_find_loop(hm, hashval, key, keysize, idx, 0)

(* ------------------------------ deletion ------------------------------- *)

\* hashmap_delete_loop that moves the nodes back without "node->psl--"
RECURSIVE hashmap_delete_loop_keeps_psl(_, _, _, _)
hashmap_delete_loop_keeps_psl(hm, entry, pos0, idx) ==
    LET pos == (pos0 + 1) % (hm.tables[idx].hashmask + 1)
        node == NodeAt(hm, idx, pos)
    IN  IF node.key = NULL \/ node.psl = 0
          THEN StoreNode(hm, idx, entry, ZeroNode)
          ELSE hashmap_delete_loop_keeps_psl(
                   StoreNode(hm, idx, entry, node), pos, pos, idx)

RECURSIVE hashmap_delete_loop(_, _, _, _)
hashmap_delete_loop(hm, entry, pos0, idx) ==
    LET pos == (pos0 + 1) % (hm.tables[idx].hashmask + 1)
        node == NodeAt(hm, idx, pos)
    IN  IF node.key = NULL \/ node.psl = 0
          THEN StoreNode(hm, idx, entry, ZeroNode)
          ELSE LET shifted == [node EXCEPT !.psl = @ - 1]
               IN  hashmap_delete_loop(
                       StoreNode(StoreNode(hm, idx, pos, shifted),
                                 idx, entry, shifted),
                       pos, pos, idx)

\* hashmap_delete_node without "hashmap->count--"
hashmap_delete_node_keeps_count(hm, entry, hashval, psl, idx) ==
    LET hash == isc_hash_bits32(hashval, hm.tables[idx].hashbits)
    IN  hashmap_delete_loop(hm, entry, hash + psl, idx)

\* hashmap_delete_node without the backward shift: the node is cleared
\* and the nodes behind it stay where they are
hashmap_delete_node_no_shift(hm, entry, hashval, psl, idx) ==
    StoreNode([hm EXCEPT !.count = @ - 1], idx, entry, ZeroNode)

\* entry is the position of the node to delete in tables[idx]
hashmap_delete_node(hm, entry, hashval, psl, idx) ==
    LET hash == isc_hash_bits32(hashval, hm.tables[idx].hashbits)
    IN  hashmap_delete_loop([hm EXCEPT !.count = @ - 1], entry,
                            hash + psl, idx)

(* ------------------------------ insertion ------------------------------ *)

\* hashmap_add_loop that replaces the value of a matching node instead
\* of leaving it alone
RECURSIVE hashmap_add_loop_overwrites(_, _, _, _, _, _, _, _)
hashmap_add_loop_overwrites(hm, node, hashval, key, keysize, idx, hash, psl) ==
    LET pos == (hash + psl) % (hm.tables[idx].hashmask + 1)
        current == NodeAt(hm, idx, pos)
    IN  IF current.key = NULL
          THEN [hm |-> StoreNode([hm EXCEPT !.count = @ + 1], idx, pos,
                                 node),
                result |-> ISC_R_SUCCESS]
          ELSE IF hashmap_match(current, hashval, key, keysize,
                                hm.case_sensitive)
                 THEN [hm |-> StoreNode(hm, idx, pos,
                                        [current EXCEPT
                                            !.value = node.value]),
                       result |-> ISC_R_EXISTS]
                 ELSE IF node.psl > current.psl
                        THEN hashmap_add_loop_overwrites(
                                 StoreNode(hm, idx, pos, node),
                                 [current EXCEPT !.psl = @ + 1],
                                 hashval, key, keysize, idx, hash, psl + 1)
                        ELSE hashmap_add_loop_overwrites(
                                 hm, [node EXCEPT !.psl = @ + 1],
                                 hashval, key, keysize, idx, hash, psl + 1)

\* hashmap_add_loop that swaps the poor with the rich node but forgets
\* "node.psl++" for the node it carries on
RECURSIVE hashmap_add_loop_swap_keeps_psl(_, _, _, _, _, _, _, _)
hashmap_add_loop_swap_keeps_psl(hm, node, hashval, key, keysize, idx, hash, psl) ==
    LET pos == (hash + psl) % (hm.tables[idx].hashmask + 1)
        current == NodeAt(hm, idx, pos)
    IN  IF current.key = NULL
          THEN [hm |-> StoreNode([hm EXCEPT !.count = @ + 1], idx, pos,
                                 node),
                result |-> ISC_R_SUCCESS]
          ELSE IF hashmap_match(current, hashval, key, keysize,
                                hm.case_sensitive)
                 THEN [hm |-> hm, result |-> ISC_R_EXISTS]
                 ELSE IF node.psl > current.psl
                        THEN hashmap_add_loop_swap_keeps_psl(
                                 StoreNode(hm, idx, pos, node), current,
                                 hashval, key, keysize, idx, hash, psl + 1)
                        ELSE hashmap_add_loop_swap_keeps_psl(
                                 hm, [node EXCEPT !.psl = @ + 1],
                                 hashval, key, keysize, idx, hash, psl + 1)

\* hashmap_add_loop without the swap of the poor with the rich node:
\* plain linear probing
RECURSIVE hashmap_add_loop_no_swap(_, _, _, _, _, _, _, _)
hashmap_add_loop_no_swap(hm, node, hashval, key, keysize, idx, hash, psl) ==
    LET pos == (hash + psl) % (hm.tables[idx].hashmask + 1)
        current == NodeAt(hm, idx, pos)
    IN  IF current.key = NULL
          THEN [hm |-> StoreNode([hm EXCEPT !.count = @ + 1], idx, pos,
                                 node),
                result |-> ISC_R_SUCCESS]
          ELSE IF hashmap_match(current, hashval, key, keysize,
                                hm.case_sensitive)
                 THEN [hm |-> hm, result |-> ISC_R_EXISTS]
                 ELSE hashmap_add_loop_no_swap(
                          hm, [node EXCEPT !.psl = @ + 1],
                          hashval, key, keysize, idx, hash, psl + 1)

\* the loop of hashmap_add; it has no exit but an empty node or a match, so
\* on a table that has neither it never returns: once every slot has been
\* probed the call is taken as diverging
RECURSIVE hashmap_add_loop(_, _, _, _, _, _, _, _)
hashmap_add_loop(hm, node, hashval, key, keysize, idx, hash, psl) ==
    LET pos == (hash + psl) % (hm.tables[idx].hashmask + 1)
        current == NodeAt(hm, idx, pos)
    IN  IF psl >= hm.tables[idx].size
          THEN [hm |-> Abort(hm, "hashmap_add: while (true)"),
                result |-> Diverges]
          ELSE IF current.key = NULL
          THEN [hm |-> StoreNode([hm EXCEPT !.count = @ + 1], idx, pos,
                                 node),
                result |-> ISC_R_SUCCESS]
          ELSE IF hashmap_match(current, hashval, key, keysize,
                                hm.case_sensitive)
                 THEN [hm |-> hm, result |-> ISC_R_EXISTS]
                 ELSE IF node.psl > current.psl
                        THEN hashmap_add_loop(
                                 StoreNode(hm, idx, pos, node),
                                 [current EXCEPT !.psl = @ + 1],
                                 hashval, key, keysize, idx, hash, psl + 1)
                        ELSE hashmap_add_loop(
                                 hm, [node EXCEPT !.psl = @ + 1],
                                 hashval, key, keysize, idx, hash, psl + 1)

hashmap_add(hm, hashval, key, keysize, value, idx) ==
    hashmap_add_loop(hm, hashmap_node_init(hashval, key, keysize, value),
                     hashval, key, keysize, idx,
                     isc_hash_bits32(hashval, hm.tables[idx].hashbits), 0)

(* ------------------------- incremental resize -------------------------- *)

\* hashmap_rehash_skip that also passes the nodes that are away from their
\* home slot
RECURSIVE hashmap_rehash_skip_displaced(_, _)
hashmap_rehash_skip_displaced(hm, oldidx) ==
    IF hm.hiter < hm.tables[oldidx].size
       /\ \/ NodeAt(hm, oldidx, hm.hiter).key = NULL
          \/ NodeAt(hm, oldidx, hm.hiter).psl > 0
      THEN hashmap_rehash_skip_displaced([hm EXCEPT !.hiter = @ + 1], oldidx)
      ELSE hm

\* the first loop of hashmap_rehash_one: skip the empty nodes
RECURSIVE hashmap_rehash_skip(_, _)
hashmap_rehash_skip(hm, oldidx) ==
    IF hm.hiter < hm.tables[oldidx].size
       /\ NodeAt(hm, oldidx, hm.hiter).key = NULL
      THEN hashmap_rehash_skip([hm EXCEPT !.hiter = @ + 1], oldidx)
      ELSE hm

\* hashmap_rehash_one that leaves the moved node in the old table as well
hashmap_rehash_one_copies(hm0) ==
    LET oldidx == hashmap_nexttable(hm0.hindex)
        oldsize == hm0.tables[oldidx].size
        hm == hashmap_rehash_skip(hm0, oldidx)
    IN  IF hm.hiter = oldsize
          THEN [hashmap_free_table(hm, oldidx, FALSE) EXCEPT !.hiter = 0]
          ELSE LET node == NodeAt(hm, oldidx, hm.hiter)
               IN  hashmap_add(hm, node.hashval, node.key, node.keysize,
                               node.value, hm.hindex).hm

\* hashmap_rehash_one that does not free the old table it has emptied
hashmap_rehash_one_keeps_table(hm0) ==
    LET oldidx == hashmap_nexttable(hm0.hindex)
        oldsize == hm0.tables[oldidx].size
        hm == hashmap_rehash_skip(hm0, oldidx)
    IN  IF hm.hiter = oldsize
          THEN [hm EXCEPT !.hiter = 0]
          ELSE LET node == NodeAt(hm, oldidx, hm.hiter)
                   deleted == hashmap_delete_node(hm, hm.hiter,
                                                  node.hashval, node.psl,
                                                  oldidx)
               IN  hashmap_add(deleted, node.hashval, node.key,
                               node.keysize, node.value, deleted.hindex).hm

\* hashmap_rehash_one that increases hiter after moving a node
hashmap_rehash_one_advances(hm0) ==
    LET oldidx == hashmap_nexttable(hm0.hindex)
        oldsize == hm0.tables[oldidx].size
        hm == hashmap_rehash_skip(hm0, oldidx)
    IN  IF hm.hiter = oldsize
          THEN [hashmap_free_table(hm, oldidx, FALSE) EXCEPT !.hiter = 0]
          ELSE LET node == NodeAt(hm, oldidx, hm.hiter)
                   deleted == hashmap_delete_node(hm, hm.hiter,
                                                  node.hashval, node.psl,
                                                  oldidx)
                   added == hashmap_add(deleted, node.hashval, node.key,
                                        node.keysize, node.value,
                                        deleted.hindex).hm
               IN  [added EXCEPT !.hiter = @ + 1]

\* hashmap_rehash_one that leaves hiter where it is when it frees the old table
hashmap_rehash_one_keeps_hiter(hm0) ==
    LET oldidx == hashmap_nexttable(hm0.hindex)
        oldsize == hm0.tables[oldidx].size
        hm == hashmap_rehash_skip(hm0, oldidx)
    IN  IF hm.hiter = oldsize
          THEN hashmap_free_table(hm, oldidx, FALSE)
          ELSE LET node == NodeAt(hm, oldidx, hm.hiter)
                   deleted == hashmap_delete_node(hm, hm.hiter,
                                                  node.hashval, node.psl,
                                                  oldidx)
               IN  hashmap_add(deleted, node.hashval, node.key,
                               node.keysize, node.value, deleted.hindex).hm

hashmap_rehash_one(hm0) ==
    LET oldidx == hashmap_nexttable(hm0.hindex)
        oldsize == hm0.tables[oldidx].size
        hm == hashmap_rehash_skip(hm0, oldidx)
    IN  IF hm.hiter = oldsize
          THEN [hashmap_free_table(hm, oldidx, FALSE) EXCEPT !.hiter = 0]
          ELSE LET node == NodeAt(hm, oldidx, hm.hiter)
                   deleted == hashmap_delete_node(hm, hm.hiter,
                                                  node.hashval, node.psl,
                                                  oldidx)
               IN  hashmap_add(deleted, node.hashval, node.key,
                               node.keysize, node.value, deleted.hindex).hm

RECURSIVE grow_bits_loop(_, _)
grow_bits_loop(hm, newbits) ==
    IF hm.count > APPROX_40_PERCENT(HASHSIZE(newbits))
      THEN grow_bits_loop(hm, newbits + 1)
      ELSE newbits

\* grow_bits that always takes the next number of bits
grow_bits_next(hm) ==
    LET newbits == hm.tables[hm.hindex].hashbits + 1
    IN  IF newbits > HASHMAP_MAX_BITS THEN HASHMAP_MAX_BITS ELSE newbits

grow_bits(hm) ==
    LET newbits == grow_bits_loop(hm, hm.tables[hm.hindex].hashbits + 1)
    IN  IF newbits > HASHMAP_MAX_BITS THEN HASHMAP_MAX_BITS ELSE newbits

shrink_bits(hm) ==
    LET newbits == hm.tables[hm.hindex].hashbits - 1
    IN  IF newbits <= HASHMAP_MIN_BITS THEN HASHMAP_MIN_BITS ELSE newbits

hashmap_rehash_start_grow(hm) ==
    LET oldindex == hm.hindex
        oldbits == hm.tables[oldindex].hashbits
        newindex == hashmap_nexttable(oldindex)
        newbits == grow_bits(hm)
    IN  IF rehashing_in_progress(hm)
          THEN Abort(hm, "hashmap_rehash_start_grow: REQUIRE")
          ELSE IF newbits > oldbits
                 THEN [hashmap_create_table(hm, newindex, newbits)
                         EXCEPT !.hindex = newindex]
                 ELSE hm

hashmap_rehash_start_shrink(hm) ==
    LET oldindex == hm.hindex
        oldbits == hm.tables[oldindex].hashbits
        newindex == hashmap_nexttable(oldindex)
        newbits == shrink_bits(hm)
    IN  IF rehashing_in_progress(hm)
          THEN Abort(hm, "hashmap_rehash_start_shrink: REQUIRE")
          ELSE IF newbits < oldbits
                 THEN [hashmap_create_table(hm, newindex, newbits)
                         EXCEPT !.hindex = newindex]
                 ELSE hm

\* over_threshold that is true already at the threshold
over_threshold_at(hm) ==
    LET bits == hm.tables[hm.hindex].hashbits
    IN  IF bits = HASHMAP_MAX_BITS
          THEN FALSE
          ELSE hm.count >= APPROX_90_PERCENT(HASHSIZE(bits))

over_threshold(hm) ==
    LET bits == hm.tables[hm.hindex].hashbits
    IN  IF bits = HASHMAP_MAX_BITS
          THEN FALSE
          ELSE hm.count > APPROX_90_PERCENT(HASHSIZE(bits))

\* under_threshold that is true already at the threshold
under_threshold_at(hm) ==
    LET bits == hm.tables[hm.hindex].hashbits
    IN  IF bits = HASHMAP_MIN_BITS
          THEN FALSE
          ELSE hm.count <= APPROX_20_PERCENT(HASHSIZE(bits))

under_threshold(hm) ==
    LET bits == hm.tables[hm.hindex].hashbits
    IN  IF bits = HASHMAP_MIN_BITS
          THEN FALSE
          ELSE hm.count < APPROX_20_PERCENT(HASHSIZE(bits))

(* --------------------------- public operations ------------------------- *)

\* isc_hashmap_find that migrates one slot first, as add and delete do
isc_hashmap_find_migrates(hm0, hashval, key, keysize) ==
    LET hm == IF rehashing_in_progress(hm0)
                THEN hashmap_rehash_one(hm0)
                ELSE hm0
        node == hashmap_find(hm, hashval, key, keysize, hm.hindex)
    IN  IF ~node.found
          THEN [hm |-> hm, result |-> ISC_R_NOTFOUND, value |-> NULL]
          ELSE [hm |-> hm, result |-> ISC_R_SUCCESS,
                value |-> NodeAt(hm, node.idx, node.pos).value]

\* the map is passed as const: hm is what the call leaves behind
isc_hashmap_find(hm, hashval, key, keysize) ==
    LET node == hashmap_find(hm, hashval, key, keysize, hm.hindex)
    IN  IF ~node.found
          THEN [hm |-> hm, result |-> ISC_R_NOTFOUND, value |-> NULL]
          ELSE [hm |-> hm, result |-> ISC_R_SUCCESS,
                value |-> NodeAt(hm, node.idx, node.pos).value]

\* isc_hashmap_delete that counts a key it did not find as removed
isc_hashmap_delete_counts_miss(hm0, hashval, key, keysize) ==
    LET hm == IF rehashing_in_progress(hm0)
                THEN hashmap_rehash_one(hm0)
                ELSE IF under_threshold(hm0)
                       THEN hashmap_rehash_one(
                                hashmap_rehash_start_shrink(hm0))
                       ELSE hm0
        node == hashmap_find(hm, hashval, key, keysize, hm.hindex)
    IN  IF node.found
          THEN [hm |-> hashmap_delete_node(hm, node.pos, hashval, node.psl,
                                           node.idx),
                result |-> ISC_R_SUCCESS]
          ELSE [hm |-> [hm EXCEPT !.count = @ - 1],
                result |-> ISC_R_NOTFOUND]

isc_hashmap_delete(hm0, hashval, key, keysize) ==
    LET hm == IF rehashing_in_progress(hm0)
                THEN hashmap_rehash_one(hm0)
                ELSE IF under_threshold(hm0)
                       THEN hashmap_rehash_one(
                                hashmap_rehash_start_shrink(hm0))
                       ELSE hm0
        node == hashmap_find(hm, hashval, key, keysize, hm.hindex)
    IN  IF node.found
          THEN [hm |-> hashmap_delete_node(hm, node.pos, hashval, node.psl,
                                           node.idx),
                result |-> ISC_R_SUCCESS]
          ELSE [hm |-> hm, result |-> ISC_R_NOTFOUND]

\* isc_hashmap_add up to its lookup in the old table: the rehash step it
\* takes before it probes the active table
isc_hashmap_add_rehash(hm0) ==
    IF rehashing_in_progress(hm0)
      THEN hashmap_rehash_one(hm0)
      ELSE IF over_threshold(hm0)
             THEN hashmap_rehash_one(hashmap_rehash_start_grow(hm0))
             ELSE hm0

\* isc_hashmap_add that does not look for the key in the old table
isc_hashmap_add_skips_source(hm0, hashval, key, keysize, value) ==
    LET hm == IF rehashing_in_progress(hm0)
                THEN hashmap_rehash_one(hm0)
                ELSE IF over_threshold(hm0)
                       THEN hashmap_rehash_one(
                                hashmap_rehash_start_grow(hm0))
                       ELSE hm0
    IN  hashmap_add(hm, hashval, key, keysize, value, hm.hindex)

isc_hashmap_add(hm0, hashval, key, keysize, value) ==
    LET hm == IF rehashing_in_progress(hm0)
                THEN hashmap_rehash_one(hm0)
                ELSE IF over_threshold(hm0)
                       THEN hashmap_rehash_one(
                                hashmap_rehash_start_grow(hm0))
                       ELSE hm0
    IN  IF rehashing_in_progress(hm)
           /\ hashmap_find(hm, hashval, key, keysize,
                           hashmap_nexttable(hm.hindex)).found
          THEN [hm |-> hm, result |-> ISC_R_EXISTS]
          ELSE hashmap_add(hm, hashval, key, keysize, value, hm.hindex)

isc_hashmap_count(hm) == hm.count

\* isc_hashmap_create: one table of 2^bits slots at index 0
isc_hashmap_create(bits, case_sensitive) ==
    hashmap_create_table(
        [magic |-> TRUE, case_sensitive |-> case_sensitive, hindex |-> 0,
         hiter |-> 0, count |-> 0, tables |-> [i \in {0, 1} |-> NoTable],
         aborted |-> NoAbort],
        0, bits)

\* the loop of isc_hashmap_destroy over the tables from index i on
RECURSIVE isc_hashmap_destroy_loop(_, _)
isc_hashmap_destroy_loop(hm, i) ==
    IF i < HASHMAP_NUM_TABLES
      THEN isc_hashmap_destroy_loop(
               IF hm.tables[i].table # <<>>
                 THEN hashmap_free_table(hm, i, TRUE)
                 ELSE hm,
               i + 1)
      ELSE hm

\* isc_hashmap_destroy: the magic is cleared, both tables are cleaned up
\* and freed, and INSIST(hashmap->count == 0) is evaluated
isc_hashmap_destroy(hm0) ==
    LET hm == isc_hashmap_destroy_loop([hm0 EXCEPT !.magic = FALSE], 0)
    IN  IF hm.count = 0
          THEN hm
          ELSE Abort(hm, "isc_hashmap_destroy: INSIST")

(* ------------------------------- iterator ------------------------------ *)

\* no isc_hashmap_iter_t is allocated
NoIter == [exists |-> FALSE, hindex |-> 0, i |-> 0, cur |-> NULL]

\* isc_hashmap_iter_create; cur is NULL or 1 + the position it points to
isc_hashmap_iter_create(hm) ==
    [exists |-> TRUE, hindex |-> hm.hindex, i |-> 0, cur |-> NULL]

\* the first loop of isc__hashmap_iter_next: skip the empty nodes
RECURSIVE hashmap_iter_skip(_, _)
hashmap_iter_skip(hm, it) ==
    IF it.i < hm.tables[it.hindex].size
       /\ NodeAt(hm, it.hindex, it.i).key = NULL
      THEN hashmap_iter_skip(hm, [it EXCEPT !.i = @ + 1])
      ELSE it

\* isc__hashmap_iter_next that does not go on to the other table
isc__hashmap_iter_next_one_table(hm, it0) ==
    LET it == hashmap_iter_skip(hm, it0)
    IN  IF it.i < hm.tables[it.hindex].size
          THEN [iter |-> [it EXCEPT !.cur = it.i + 1],
                result |-> ISC_R_SUCCESS]
          ELSE [iter |-> it, result |-> ISC_R_NOMORE]

RECURSIVE isc__hashmap_iter_next(_, _)
isc__hashmap_iter_next(hm, it0) ==
    LET it == hashmap_iter_skip(hm, it0)
    IN  IF it.i < hm.tables[it.hindex].size
          THEN [iter |-> [it EXCEPT !.cur = it.i + 1],
                result |-> ISC_R_SUCCESS]
          ELSE IF try_nexttable(hm, it.hindex)
                 THEN isc__hashmap_iter_next(
                          hm, [it EXCEPT !.hindex = hashmap_nexttable(@),
                                         !.i = 0])
                 ELSE [iter |-> it, result |-> ISC_R_NOMORE]

isc_hashmap_iter_first(hm, it) ==
    isc__hashmap_iter_next(hm, [it EXCEPT !.hindex = hm.hindex, !.i = 0])

isc_hashmap_iter_next(hm, it) ==
    isc__hashmap_iter_next(hm, [it EXCEPT !.i = @ + 1])

isc_hashmap_iter_delcurrent_next(hm, it) ==
    LET node == NodeAt(hm, it.hindex, it.i)
        deleted == hashmap_delete_node(hm, it.i, node.hashval, node.psl,
                                       it.hindex)
        r == isc__hashmap_iter_next(deleted, it)
    IN  [hm |-> deleted, iter |-> r.iter, result |-> r.result]

\* isc_hashmap_iter_currentkey
isc_hashmap_iter_currentkey(hm, it) ==
    NodeAt(hm, it.hindex, it.cur - 1).key

\* isc_hashmap_iter_current
isc_hashmap_iter_current(hm, it) ==
    NodeAt(hm, it.hindex, it.cur - 1).value

(* -------------------------------- state -------------------------------- *)

VARIABLES
    hashmap,    \* the isc_hashmap_t
    hash_key,   \* the keyed hash the seed hash_key[16] selects
    iter,       \* the isc_hashmap_iter_t, if one is allocated
    last,       \* the last public call and its result
    dict,       \* the dictionary the calls describe: key -> value or NULL
    yields,     \* how often the running iteration has yielded each key
    iterDel,    \* the keys the running iteration called delcurrent_next on
    migr        \* the rehash in progress: entries at its start, calls since

vars == <<hashmap, hash_key, iter, last, dict, yields, iterDel, migr>>

VARIABLES
    cache,      \* the isc_tlsctx_cache_t
    thr,        \* per thread: the cache call it is in and how far it got
    refs,       \* per thread: the cache pointers it holds
    ctxs,       \* per TLS context: who owns it
    mem,        \* how often each context and each cache entry was freed
    published,  \* per slot: the context of the add that returned SUCCESS
    counts      \* attach, detach and destroy calls made so far

cvars == <<cache, thr, refs, ctxs, mem, published, counts>>

VARIABLES
    tls,        \* init_once, shut_once, init_done, shut_done; abort site
    tlsthr,     \* per thread: how far its initialize / shutdown call got
    tlsruns     \* how often tls_initialize and tls_shutdown have run

tvars == <<tls, tlsthr, tlsruns>>

VARIABLES
    sslopts,    \* the option bits of the SSL_CTX
    protobuild, \* the protocol versions the provider was built with
    protolast   \* the last isc_tlsctx_set_protocols call and how it ended

pvars == <<sslopts, protobuild, protolast>>

VARIABLES
    srv,        \* the call in progress: its locals, position and result
    heap        \* the provider objects: references outstanding and owners

svars == <<srv, heap>>

VARIABLES
    alpn        \* the offered list, the needle and what the scan answered

avars == <<alpn>>

VARIABLES
    growth      \* a map filled with distinct keys: its sizes, without its nodes

gvars == <<growth>>

VARIABLES
    chain       \* a map of ShiftBits bits whose keys share few home slots

hvars == <<chain>>

VARIABLES
    wide        \* a map of WideBits bits, its keys of few home slots and its iterator

wvars == <<wide>>

\* the state the callers of the map do not touch
other_than_hashmap == <<cvars, tvars, pvars, svars, avars, gvars, hvars, wvars>>

\* the state the callers of the cache do not touch
other_than_cache == <<vars, tvars, pvars, svars, avars, gvars, hvars, wvars>>

\* the state isc__tls_initialize and isc__tls_shutdown do not touch
other_than_tls == <<vars, cvars, pvars, svars, avars, gvars, hvars, wvars>>

\* the state isc_tlsctx_set_protocols does not touch
other_than_protocols == <<vars, cvars, tvars, svars, avars, gvars, hvars, wvars>>

\* the state the server context builder does not touch
other_than_server == <<vars, cvars, tvars, pvars, avars, gvars, hvars, wvars>>

\* the state the ALPN scan does not touch
other_than_alpn == <<vars, cvars, tvars, pvars, svars, gvars, hvars, wvars>>

\* the state the growth of a map does not touch
other_than_growth == <<vars, cvars, tvars, pvars, svars, avars, hvars, wvars>>

\* the state the map of one long probe chain does not touch
other_than_shift == <<vars, cvars, tvars, pvars, svars, avars, gvars, wvars>>

\* the state the map of colliding keys does not touch
other_than_wide == <<vars, cvars, tvars, pvars, svars, avars, gvars, hvars>>

\* no map has been created
MapUnused ==
    /\ hashmap = NULL
    /\ hash_key = NULL
    /\ iter = NULL
    /\ last = NULL
    /\ dict = NULL
    /\ yields = NULL
    /\ iterDel = NULL
    /\ migr = NULL

\* the callers leave the crypto provider alone
TlsUnused ==
    /\ tls = NULL
    /\ tlsthr = NULL
    /\ tlsruns = NULL

\* no TLS context has its protocols set
ProtocolsUnused ==
    /\ sslopts = NULL
    /\ protobuild = NULL
    /\ protolast = NULL

\* no server context is being built
ServerUnused ==
    /\ srv = NULL
    /\ heap = NULL

\* no ALPN list is being scanned
AlpnUnused ==
    /\ alpn = NULL

\* no map is being grown
GrowthUnused ==
    /\ growth = NULL

\* no map of one long probe chain exists
ShiftUnused ==
    /\ chain = NULL

\* no map of colliding keys exists
WideUnused ==
    /\ wide = NULL

\* no TLS context cache has been created
CacheUnused ==
    /\ cache = NULL
    /\ thr = NULL
    /\ refs = NULL
    /\ ctxs = NULL
    /\ mem = NULL
    /\ published = NULL
    /\ counts = NULL

\* only the map is in use
OnlyMapUsed == CacheUnused /\ TlsUnused /\ ProtocolsUnused /\ ServerUnused /\ AlpnUnused /\ GrowthUnused /\ ShiftUnused /\ WideUnused

\* only the cache is in use
OnlyCacheUsed == MapUnused /\ TlsUnused /\ ProtocolsUnused /\ ServerUnused /\ AlpnUnused /\ GrowthUnused /\ ShiftUnused /\ WideUnused

\* only the crypto provider is in use
OnlyTlsUsed == MapUnused /\ CacheUnused /\ ProtocolsUnused /\ ServerUnused /\ AlpnUnused /\ GrowthUnused /\ ShiftUnused /\ WideUnused

\* only a TLS context and its options are in use
OnlyProtocolsUsed == MapUnused /\ TlsUnused /\ CacheUnused /\ ServerUnused /\ AlpnUnused /\ GrowthUnused /\ ShiftUnused /\ WideUnused

\* only the server context builder is in use
OnlyServerUsed == MapUnused /\ TlsUnused /\ ProtocolsUnused /\ CacheUnused /\ AlpnUnused /\ GrowthUnused /\ ShiftUnused /\ WideUnused

\* only the ALPN scan is in use
OnlyAlpnUsed == MapUnused /\ TlsUnused /\ ProtocolsUnused /\ ServerUnused /\ CacheUnused /\ GrowthUnused /\ ShiftUnused /\ WideUnused

\* only the growth of a map by distinct keys is in use
OnlyGrowthUsed == MapUnused /\ TlsUnused /\ ProtocolsUnused /\ ServerUnused /\ AlpnUnused /\ CacheUnused /\ ShiftUnused /\ WideUnused

\* only the map of one long probe chain is in use
OnlyShiftUsed == MapUnused /\ TlsUnused /\ ProtocolsUnused /\ ServerUnused /\ AlpnUnused /\ GrowthUnused /\ CacheUnused /\ WideUnused

\* only the map of colliding keys is in use
OnlyWideUsed == MapUnused /\ TlsUnused /\ ProtocolsUnused /\ ServerUnused /\ AlpnUnused /\ GrowthUnused /\ ShiftUnused /\ CacheUnused

\* the key whose bytes are the ASCII-folded bytes of key
Folded(key) ==
    CHOOSE k \in Keys :
        /\ KeySize(k) = KeySize(key)
        /\ \A i \in 1 .. KeySize(key) :
               KeyBytes(k)[i] = isc_ascii_tolower(KeyBytes(key)[i])

\* the keyed hash k of the bytes of key, folded first unless case_sensitive
isc_halfsiphash24(k, key, case_sensitive) ==
    k[IF case_sensitive THEN key ELSE Folded(key)]

isc_hashmap_hash(key) ==
    isc_halfsiphash24(hash_key, key, hashmap.case_sensitive)

\* the entry of the dictionary a key denotes in this map
Denoted(key) == IF hashmap.case_sensitive THEN key ELSE Folded(key)

IterOps == {"iter_first", "iter_next", "iter_delcurrent_next"}

\* the iterator points at an entry: the last iterator call returned SUCCESS
IterAtEntry ==
    iter.exists /\ last.op \in IterOps /\ last.result = ISC_R_SUCCESS

NoYields == [k \in Keys |-> 0]

\* one more yield of key (counted up to 2)
Yield(y, key) == [y EXCEPT ![key] = IF @ < 2 THEN @ + 1 ELSE @]

\* no rehash is in progress
NoRehash == [entries |-> 0, calls |-> 0]

\* the rehash in progress after an add or delete has taken hm to hm1: the
\* entries the source table held when the rehash started and the add and
\* delete calls made since; the call that ends a rehash leaves its totals
Counted(hm, hm1, g) ==
    IF rehashing_in_progress(hm)
      THEN [g EXCEPT !.calls = @ + 1]
      ELSE IF rehashing_in_progress(hm1)
             THEN [entries |-> hm.count, calls |-> 0]
             ELSE NoRehash

Init ==
    /\ \E bits \in CreateBits : hashmap = isc_hashmap_create(bits, TRUE)
    /\ hash_key \in HashFunctions
    /\ iter = NoIter
    /\ last = [op |-> "create", result |-> ISC_R_SUCCESS]
    /\ dict = [k \in Keys |-> NULL]
    /\ yields = NoYields
    /\ iterDel = {}
    /\ migr = NoRehash
    /\ OnlyMapUsed

\* the process that owns the map has not aborted and the map is valid
MapAlive == hashmap.aborted = NoAbort /\ hashmap.magic

Add(key, value) ==
    LET r == isc_hashmap_add(hashmap, isc_hashmap_hash(key), key,
                             KeySize(key), value)
    IN  /\ MapAlive
        /\ ~iter.exists
        /\ hashmap' = r.hm
        /\ last' = [op |-> "add", result |-> r.result]
        /\ dict' = IF r.result = ISC_R_SUCCESS
                     THEN [dict EXCEPT ![Denoted(key)] = value]
                     ELSE dict
        /\ migr' = Counted(hashmap, r.hm, migr)
        /\ UNCHANGED <<hash_key, iter, yields, iterDel>>
        /\ UNCHANGED other_than_hashmap

Delete(key) ==
    LET r == isc_hashmap_delete(hashmap, isc_hashmap_hash(key), key,
                                KeySize(key))
    IN  /\ MapAlive
        /\ ~iter.exists
        /\ hashmap' = r.hm
        /\ last' = [op |-> "delete", result |-> r.result]
        /\ dict' = IF r.result = ISC_R_SUCCESS
                     THEN [dict EXCEPT ![Denoted(key)] = NULL]
                     ELSE dict
        /\ migr' = Counted(hashmap, r.hm, migr)
        /\ UNCHANGED <<hash_key, iter, yields, iterDel>>
        /\ UNCHANGED other_than_hashmap

Find(key) ==
    LET r == isc_hashmap_find(hashmap, isc_hashmap_hash(key), key,
                              KeySize(key))
    IN  /\ MapAlive
        /\ ~iter.exists
        /\ hashmap' = r.hm
        /\ last' = [op |-> "find", result |-> r.result]
        /\ UNCHANGED <<hash_key, iter, dict, yields, iterDel, migr>>
        /\ UNCHANGED other_than_hashmap

IterCreate ==
    /\ MapAlive
    /\ ~iter.exists
    /\ iter' = isc_hashmap_iter_create(hashmap)
    /\ last' = [op |-> "iter_create", result |-> ISC_R_SUCCESS]
    /\ yields' = NoYields
    /\ iterDel' = {}
    /\ UNCHANGED <<hashmap, hash_key, dict, migr>>
    /\ UNCHANGED other_than_hashmap

IterFirst ==
    LET r == isc_hashmap_iter_first(hashmap, iter)
    IN  /\ MapAlive
        /\ iter.exists
        /\ last.op = "iter_create"
        /\ iter' = r.iter
        /\ last' = [op |-> "iter_first", result |-> r.result]
        /\ yields' = IF r.result = ISC_R_SUCCESS
                       THEN Yield(NoYields,
                                  isc_hashmap_iter_currentkey(hashmap,
                                                              r.iter))
                       ELSE NoYields
        /\ iterDel' = {}
        /\ UNCHANGED <<hashmap, hash_key, dict, migr>>
        /\ UNCHANGED other_than_hashmap

IterNext ==
    LET r == isc_hashmap_iter_next(hashmap, iter)
    IN  /\ MapAlive
        /\ IterAtEntry
        /\ iter.cur # NULL
        /\ iter' = r.iter
        /\ last' = [op |-> "iter_next", result |-> r.result]
        /\ yields' = IF r.result = ISC_R_SUCCESS
                       THEN Yield(yields,
                                  isc_hashmap_iter_currentkey(hashmap,
                                                              r.iter))
                       ELSE yields
        /\ UNCHANGED <<hashmap, hash_key, dict, iterDel, migr>>
        /\ UNCHANGED other_than_hashmap

IterDelcurrentNext ==
    LET key == NodeAt(hashmap, iter.hindex, iter.i).key
        r == isc_hashmap_iter_delcurrent_next(hashmap, iter)
    IN  /\ MapAlive
        /\ IterAtEntry
        /\ iter.cur # NULL
        /\ hashmap' = r.hm
        /\ iter' = r.iter
        /\ last' = [op |-> "iter_delcurrent_next", result |-> r.result]
        /\ dict' = [dict EXCEPT ![Denoted(key)] = NULL]
        /\ iterDel' = iterDel \cup {key}
        /\ yields' = IF r.result = ISC_R_SUCCESS
                       THEN Yield(yields,
                                  isc_hashmap_iter_currentkey(r.hm, r.iter))
                       ELSE yields
        /\ UNCHANGED <<hash_key, migr>>
        /\ UNCHANGED other_than_hashmap

IterDestroy ==
    /\ MapAlive
    /\ iter.exists
    /\ iter' = NoIter
    /\ last' = [op |-> "iter_destroy", result |-> ISC_R_SUCCESS]
    /\ yields' = NoYields
    /\ iterDel' = {}
    /\ UNCHANGED <<hashmap, hash_key, dict, migr>>
    /\ UNCHANGED other_than_hashmap

Next ==
    \/ \E key \in Keys, value \in Values : Add(key, value)
    \/ \E key \in Keys : Delete(key)
    \/ \E key \in Keys : Find(key)
    \/ IterCreate
    \/ IterFirst
    \/ IterNext
    \/ IterDelcurrentNext
    \/ IterDestroy

Spec == Init /\ [][Next]_vars

\* the owner of the map destroys it; dict keeps what the map held then
Destroy ==
    /\ MapAlive
    /\ ~iter.exists
    /\ hashmap' = isc_hashmap_destroy(hashmap)
    /\ last' = [op |-> "destroy", result |-> ISC_R_SUCCESS]
    /\ UNCHANGED <<hash_key, iter, dict, yields, iterDel, migr>>
    /\ UNCHANGED other_than_hashmap

NextDestroy ==
    \/ Next
    \/ Destroy

\* the map in use and its end
SpecDestroy == Init /\ [][NextDestroy]_vars

(* ------------------------- derived state views ------------------------- *)

TableIdx == {0, 1}

\* the positions of the non-empty nodes of tables[idx]
Stored(idx) ==
    {pos \in 0 .. hashmap.tables[idx].size - 1 :
        NodeAt(hashmap, idx, pos).key # NULL}

\* the home slot of the node stored at pos of tables[idx]
Home(idx, pos) ==
    isc_hash_bits32(NodeAt(hashmap, idx, pos).hashval,
                    hashmap.tables[idx].hashbits)

\* the position d slots after pos in tables[idx]
Ahead(idx, pos, d) == (pos + d) % hashmap.tables[idx].size

\* what isc_hashmap_find answers for key in the current state
Lookup(key) ==
    LET r == isc_hashmap_find(hashmap, isc_hashmap_hash(key), key,
                              KeySize(key))
    IN  [result |-> r.result, value |-> r.value]

\* the key-to-value mapping callers can observe
Mapping == [k \in Keys |-> Lookup(k)]

\* the (table, position) pairs that hold key
Holders(key) ==
    {ip \in TableIdx \X (0 .. 2 ^ HashWidth) :
        /\ ip[2] < hashmap.tables[ip[1]].size
        /\ NodeAt(hashmap, ip[1], ip[2]).key = key}

\* the keys that are live according to the calls made so far
LiveKeys == {k \in Keys : dict[k] # NULL}

Rehashing == rehashing_in_progress(hashmap)

SourceIdx == hashmap_nexttable(hashmap.hindex)

\* the last iterator call ran off the end of the map
IterFinished ==
    iter.exists /\ last.op \in IterOps /\ last.result = ISC_R_NOMORE

(* -------------------------------- claims ------------------------------- *)

\* C1: after any sequence of add and delete calls, also across grows,
\* shrinks and migration steps, isc_hashmap_find(k) returns SUCCESS with
\* value v exactly when the most recent successful add of k stored v and
\* no successful delete of k followed; each live key is held by exactly
\* one node and each dead key by none.
FindIsDictionary ==
    \A k \in Keys :
        /\ Lookup(k) = IF dict[k] = NULL
                         THEN [result |-> ISC_R_NOTFOUND, value |-> NULL]
                         ELSE [result |-> ISC_R_SUCCESS, value |-> dict[k]]
        /\ Cardinality(Holders(k)) = IF dict[k] = NULL THEN 0 ELSE 1

\* C1 witness: a rehash is in progress with live entries in both tables
FindIsDictionaryWitness ==
    /\ Rehashing
    /\ Stored(SourceIdx) # {}
    /\ Stored(hashmap.hindex) # {}
    /\ last.op \in {"add", "delete"}

\* C2: isc_hashmap_count equals the number of non-empty slots of both
\* tables, which equals the number of distinct live keys.
CountIsUsedSlots ==
    /\ isc_hashmap_count(hashmap) =
           Cardinality(Stored(0)) + Cardinality(Stored(1))
    /\ isc_hashmap_count(hashmap) =
           Cardinality({k \in Keys : Holders(k) # {}})
    /\ isc_hashmap_count(hashmap) = Cardinality(LiveKeys)

\* C2 witness: delcurrent_next has deleted an entry while a rehash is in
\* progress and entries remain
CountIsUsedSlotsWitness ==
    /\ last.op = "iter_delcurrent_next"
    /\ Rehashing
    /\ isc_hashmap_count(hashmap) >= 1

\* C3: every non-empty slot at position p of either table stores
\* psl = (p - home) mod capacity, home being hash_bits of its hash value
\* for the bits of that table.
PslIsDistanceFromHome ==
    \A idx \in TableIdx : \A pos \in Stored(idx) :
        NodeAt(hashmap, idx, pos).psl =
            (pos - Home(idx, pos)) % hashmap.tables[idx].size

\* C3 witness: after a successful delete an entry sits wrapped around the
\* table end (before its home slot)
PslIsDistanceFromHomeWitness ==
    /\ last = [op |-> "delete", result |-> ISC_R_SUCCESS]
    /\ \E idx \in TableIdx : \E pos \in Stored(idx) : pos < Home(idx, pos)

\* C4: for a key stored at distance d from its home slot h, every slot
\* (h + d') mod capacity with d' < d is non-empty and has psl >= d', and
\* the lookup of a stored key in its table finds it at its position.
ProbePathIsRich ==
    \A idx \in TableIdx : \A pos \in Stored(idx) :
        LET node == NodeAt(hashmap, idx, pos)
            h == Home(idx, pos)
            d == (pos - h) % hashmap.tables[idx].size
        IN  /\ \A dd \in 0 .. d - 1 :
                /\ Ahead(idx, h, dd) \in Stored(idx)
                /\ NodeAt(hashmap, idx, Ahead(idx, h, dd)).psl >= dd
            /\ hashmap_find(hashmap, node.hashval, node.key, node.keysize,
                            idx) =
                   [found |-> TRUE, pos |-> pos, psl |-> d, idx |-> idx]

\* C4 witness: after an add or delete a key is stored two or more slots
\* from its home
ProbePathIsRichWitness ==
    \E idx \in TableIdx : \E pos \in Stored(idx) :
        /\ NodeAt(hashmap, idx, pos).psl >= 2
        /\ last.op \in {"add", "delete"}

\* C5: while a rehash is in progress no key is stored in both the active
\* table and the source table.
KeyInOneTable ==
    \A k \in Keys :
        ~(\E p0 \in Stored(0), p1 \in Stored(1) :
            /\ NodeAt(hashmap, 0, p0).key = k
            /\ NodeAt(hashmap, 1, p1).key = k)

\* C5 witness: an add returned EXISTS while both tables hold entries
KeyInOneTableWitness ==
    /\ Rehashing
    /\ last = [op |-> "add", result |-> ISC_R_EXISTS]
    /\ Stored(SourceIdx) # {}
    /\ Stored(hashmap.hindex) # {}

\* C6: an iteration continued with any mix of iter_next and
\* iter_delcurrent_next yields no entry twice, and when it ends it has
\* yielded every entry that was live at its start exactly once.
IterDelcurrentExactlyOnce ==
    /\ \A k \in Keys : yields[k] <= 1
    /\ IterFinished =>
           \A k \in Keys :
               yields[k] = IF k \in LiveKeys \cup iterDel THEN 1 ELSE 0

\* C7: an iteration that uses only iter_first and iter_next yields each
\* live (key, value) exactly once and then NOMORE, in steady state and
\* while a rehash is in progress.
IterNextExactlyOnce ==
    (iter.exists /\ iterDel = {}) =>
        /\ \A k \in Keys : yields[k] <= 1
        /\ \A k \in Keys : yields[k] = 1 => k \in LiveKeys
        /\ IterAtEntry =>
               /\ yields[isc_hashmap_iter_currentkey(hashmap, iter)] = 1
               /\ isc_hashmap_iter_current(hashmap, iter) =
                      dict[isc_hashmap_iter_currentkey(hashmap, iter)]
        /\ IterFinished =>
               \A k \in Keys : yields[k] = IF k \in LiveKeys THEN 1 ELSE 0

\* C7 witness: an iteration without deletions has ended while a rehash
\* is in progress and both tables hold entries
IterNextExactlyOnceWitness ==
    /\ IterFinished
    /\ iterDel = {}
    /\ Rehashing
    /\ Stored(SourceIdx) # {}
    /\ Stored(hashmap.hindex) # {}

\* C8: for a key that is not in the map, add returns SUCCESS and find
\* then returns the added value; for a key that is in the map, delete
\* returns SUCCESS and find then returns NOTFOUND.
AddFindDeleteRoundTrip ==
    [][/\ last'.op = "add" =>
              \A k \in Keys, v \in Values :
                  (dict[k] = NULL /\ Add(k, v)) =>
                      /\ last'.result = ISC_R_SUCCESS
                      /\ Lookup(k)' = [result |-> ISC_R_SUCCESS,
                                       value |-> v]
       /\ last'.op = "delete" =>
              \A k \in Keys :
                  (dict[k] # NULL /\ Delete(k)) =>
                      /\ last'.result = ISC_R_SUCCESS
                      /\ Lookup(k)' = [result |-> ISC_R_NOTFOUND,
                                       value |-> NULL]]_vars

\* C8 witness: a delete succeeded while a rehash is in progress
AddFindDeleteRoundTripWitness ==
    /\ last = [op |-> "delete", result |-> ISC_R_SUCCESS]
    /\ Rehashing
    /\ Stored(SourceIdx) # {}

\* the (key, value) pairs stored in the two tables
StoredEntries ==
    {<<NodeAt(hashmap, ip[1], ip[2]).key,
       NodeAt(hashmap, ip[1], ip[2]).value>> :
        ip \in UNION {{idx} \X Stored(idx) : idx \in TableIdx}}

\* C9: when isc_hashmap_add returns EXISTS the key-to-value mapping, the
\* stored entries and count are the same as before the call.
AddExistsKeepsMapping ==
    [][(last'.op = "add" /\ last'.result = ISC_R_EXISTS) =>
           /\ \E k \in Keys, v \in Values : Add(k, v)
           /\ Mapping' = Mapping
           /\ StoredEntries' = StoredEntries
           /\ Cardinality(Stored(0))' + Cardinality(Stored(1))' =
                  Cardinality(Stored(0)) + Cardinality(Stored(1))
           /\ isc_hashmap_count(hashmap)' = isc_hashmap_count(hashmap)
           /\ dict' = dict]_vars

\* C9 witness: an add returned EXISTS while a rehash is in progress
AddExistsKeepsMappingWitness ==
    /\ last = [op |-> "add", result |-> ISC_R_EXISTS]
    /\ Rehashing
    /\ isc_hashmap_count(hashmap) >= 2

\* C10 as stated: along the consecutive slots of a probe path that
\* starts at the home slot of a stored key, the stored psl values are
\* non-decreasing until the first empty slot is reached.
PslNonDecreasingOnPath ==
    \A idx \in TableIdx : \A pos \in Stored(idx) :
        \A d \in 0 .. hashmap.tables[idx].size - 2 :
            (\A dd \in 0 .. d + 1 :
                 Ahead(idx, Home(idx, pos), dd) \in Stored(idx)) =>
                NodeAt(hashmap, idx, Ahead(idx, Home(idx, pos), d)).psl <=
                    NodeAt(hashmap, idx,
                           Ahead(idx, Home(idx, pos), d + 1)).psl

\* C10 amended: along consecutive slots the stored psl rises by at most
\* one per slot (it may drop where the entries of a later home slot
\* begin), and a non-empty slot that follows an empty slot has psl 0.
PslRisesByAtMostOne ==
    \A idx \in TableIdx : \A pos \in Stored(idx) :
        LET prev == Ahead(idx, pos, hashmap.tables[idx].size - 1)
        IN  IF prev \in Stored(idx)
              THEN NodeAt(hashmap, idx, pos).psl <=
                       NodeAt(hashmap, idx, prev).psl + 1
              ELSE NodeAt(hashmap, idx, pos).psl = 0

\* C10 witness: a slot with psl 0 directly follows a slot with psl >= 1
PslRisesByAtMostOneWitness ==
    \E idx \in TableIdx : \E pos \in Stored(idx) :
        LET prev == Ahead(idx, pos, hashmap.tables[idx].size - 1)
        IN  /\ prev \in Stored(idx)
            /\ NodeAt(hashmap, idx, prev).psl >= 1
            /\ NodeAt(hashmap, idx, pos).psl = 0

\* C11: isc_hashmap_find is a pure read: a find call leaves the tables,
\* hindex, hiter and count as they were and migrates nothing, also while a
\* rehash is in progress.
FindLeavesMapUnchanged ==
    [][(last'.op = "find") =>
           /\ \E k \in Keys : Find(k)
           /\ hashmap'.tables = hashmap.tables
           /\ hashmap'.hindex = hashmap.hindex
           /\ hashmap'.hiter = hashmap.hiter
           /\ hashmap'.count = hashmap.count
           /\ hashmap' = hashmap]_vars

\* C11 witness: a find returned while entries still wait in the old table
FindLeavesMapUnchangedWitness ==
    /\ last.op = "find"
    /\ Rehashing
    /\ Stored(SourceIdx) # {}
    /\ Stored(hashmap.hindex) # {}

\* C12: isc_hashmap_delete of a key that is not in the map returns NOTFOUND
\* and leaves the key-to-value mapping, the stored entries and count as
\* they were, in steady state and while a rehash is in progress.
DeleteMissingIsNotFound ==
    [][(last'.op = "delete") =>
           \A k \in Keys :
               (dict[Denoted(k)] = NULL /\ Delete(k)) =>
                   /\ last'.result = ISC_R_NOTFOUND
                   /\ Mapping' = Mapping
                   /\ StoredEntries' = StoredEntries
                   /\ isc_hashmap_count(hashmap)' = isc_hashmap_count(hashmap)
                   /\ dict' = dict]_vars

\* C12 witness: a delete returned NOTFOUND while both tables hold entries
DeleteMissingIsNotFoundWitness ==
    /\ last = [op |-> "delete", result |-> ISC_R_NOTFOUND]
    /\ Rehashing
    /\ Stored(SourceIdx) # {}
    /\ Stored(hashmap.hindex) # {}

(* ------------------------- case-insensitive maps ----------------------- *)

\* a map created with or without ISC_HASHMAP_CASE_INSENSITIVE
InitCase ==
    /\ \E bits \in CreateBits, case_sensitive \in BOOLEAN :
           /\ hashmap = isc_hashmap_create(bits, case_sensitive)
           /\ hash_key \in IF case_sensitive
                              THEN HashFunctions
                              ELSE {f \in [Keys -> HashVals] :
                                       \A k \in Keys : f[k] = f[Folded(k)]}
    /\ iter = NoIter
    /\ last = [op |-> "create", result |-> ISC_R_SUCCESS]
    /\ dict = [k \in Keys |-> NULL]
    /\ yields = NoYields
    /\ iterDel = {}
    /\ migr = NoRehash
    /\ OnlyMapUsed

SpecCase == InitCase /\ [][Next]_vars

\* the stored nodes whose key denotes the same entry as key
SameEntry(key) ==
    {ip \in UNION {{idx} \X Stored(idx) : idx \in TableIdx} :
        Denoted(NodeAt(hashmap, ip[1], ip[2]).key) = Denoted(key)}

KeysOf(hm, idx) ==
    {hm.tables[idx].table[pos].key :
         pos \in 1 .. Len(hm.tables[idx].table)} \ {NULL}

\* the positions of the source table, from hiter on, that hold an entry
Pending == {pos \in Stored(SourceIdx) : pos >= hashmap.hiter}

\* the first of them: the entry the next migration step moves
FirstPending == CHOOSE pos \in Pending : \A q \in Pending : pos <= q

\* the step taken is a call of one of ops (every call records itself)
Called(ops) == last'.op \in ops

\* key has left the source table for the active table in the step taken
\* (an entry the same call deleted again counts as moved)
Migrated(key) ==
    /\ key \in KeysOf(hashmap, SourceIdx)
    /\ key \notin KeysOf(hashmap', SourceIdx)
    /\ dict'[Denoted(key)] # NULL => key \in KeysOf(hashmap', hashmap.hindex)

\* C29 as stated: while a rehash is in progress every add, delete and
\* iterator step (first, next, delcurrent_next) moves an entry from the
\* source table to the active table
EveryStepMigratesOne ==
    [][(Rehashing /\ Called({"add", "delete"} \cup IterOps)) =>
           \E key \in KeysOf(hashmap, SourceIdx) : Migrated(key)]_vars

\* C29 amended: while a rehash is in progress, every add and every delete
\* first moves hiter to the next non-empty source slot and moves exactly
\* that entry to the active table, removing it from the source and leaving
\* hiter at its index, or, when no entry is left from hiter on, frees the
\* source table and resets hiter without moving anything; no iterator step
\* and no find moves an entry or hiter
AddAndDeleteMigrateOne ==
    [][Rehashing =>
           /\ (Called({"add", "delete"}) /\ Pending # {}) =>
                  LET key == NodeAt(hashmap, SourceIdx, FirstPending).key
                  IN  /\ rehashing_in_progress(hashmap')
                      /\ hashmap'.hindex = hashmap.hindex
                      /\ hashmap'.hiter = FirstPending
                      /\ Migrated(key)
                      /\ KeysOf(hashmap', SourceIdx) \subseteq
                             KeysOf(hashmap, SourceIdx)
                      /\ \A k \in KeysOf(hashmap, SourceIdx) \ {key} :
                             /\ k \notin KeysOf(hashmap', hashmap.hindex)
                             /\ dict'[Denoted(k)] # NULL =>
                                    k \in KeysOf(hashmap', SourceIdx)
           /\ (Called({"add", "delete"}) /\ Pending = {}) =>
                  /\ ~rehashing_in_progress(hashmap')
                  /\ hashmap'.hindex = hashmap.hindex
                  /\ hashmap'.hiter = 0
           /\ Called(IterOps \cup {"find", "iter_create", "iter_destroy"}) =>
                  /\ hashmap'.hiter = hashmap.hiter
                  /\ hashmap'.hindex = hashmap.hindex
                  /\ \A idx \in TableIdx :
                         KeysOf(hashmap', idx) \subseteq KeysOf(hashmap, idx)
      ]_vars

\* a rehash has started with two or more entries in the source table and
\* a delete made while it was in progress has moved the last of them
AddAndDeleteMigrateOneWitness ==
    /\ Rehashing
    /\ migr.entries >= 2
    /\ migr.calls >= 1
    /\ last.op = "delete"
    /\ Stored(SourceIdx) = {}
    /\ Cardinality(Stored(hashmap.hindex)) >= 2

\* C30: once a rehash has started, it is still in progress only while the
\* add and delete calls made since are fewer than the entries the source
\* table held at the start, every such call leaves fewer entries in the
\* source or ends the rehash, the call that ends it found no entry from
\* hiter on, freed the source table and reset hiter to 0, and a grow or
\* shrink (a change of hindex) starts only in a map that is not rehashing
RehashEndsWithinBound ==
    [][/\ IF rehashing_in_progress(hashmap')
            THEN migr'.calls + Cardinality(KeysOf(hashmap', SourceIdx'))
                     < migr'.entries
            ELSE migr'.calls <= migr'.entries + 1 /\ hashmap'.hiter = 0
       /\ (Rehashing /\ Called({"add", "delete"})) =>
              IF rehashing_in_progress(hashmap')
                THEN Cardinality(KeysOf(hashmap', SourceIdx))
                         < Cardinality(KeysOf(hashmap, SourceIdx))
                ELSE /\ Pending = {}
                     /\ hashmap.hiter = hashmap.tables[SourceIdx].size
                            \/ NodeAt(hashmap, SourceIdx,
                                      hashmap.hiter).key = NULL
                     /\ hashmap'.tables[SourceIdx].table = <<>>
                     /\ hashmap'.hiter = 0
       /\ hashmap'.hindex # hashmap.hindex =>
              ~Rehashing /\ hashmap.hiter = 0
      ]_vars

\* the last add or delete has ended a rehash that took as many calls as
\* the source table held entries when it started, two or more
RehashEndsWithinBoundWitness ==
    /\ ~Rehashing
    /\ last.op \in {"add", "delete"}
    /\ migr.entries >= 2
    /\ migr.calls = migr.entries

\* the bits of the active table of the map hm
ActiveBits(hm) == hm.tables[hm.hindex].hashbits

\* the step taken has made the other table the active one
Resized == hashmap'.hindex # hashmap.hindex

\* C31: a call of isc_hashmap_add starts a grow (the other table becomes
\* the active one, with more bits) exactly when at entry no rehash is in
\* progress, the active bits are below 32 and count > floor(921 * capacity
\* / 1024); when a rehash is in progress it moves one source entry or
\* frees the exhausted source table and starts no resize; no REQUIRE of
\* hashmap_rehash_start_grow or hashmap_rehash_start_shrink fails
GrowStartsOverThreshold ==
    [][/\ hashmap'.aborted = NoAbort
       /\ Called({"add"}) =>
              /\ Resized <=>
                     /\ ~Rehashing
                     /\ ActiveBits(hashmap) < 32
                     /\ hashmap.count >
                            (921 * hashmap.tables[hashmap.hindex].size)
                                \div 1024
              /\ Resized => ActiveBits(hashmap') > ActiveBits(hashmap)
              /\ Rehashing =>
                     \/ ~rehashing_in_progress(hashmap')
                     \/ Cardinality(KeysOf(hashmap', SourceIdx))
                            < Cardinality(KeysOf(hashmap, SourceIdx))
      ]_vars

\* an add has just started a grow of a map that held two or more entries
GrowStartsOverThresholdWitness ==
    /\ Rehashing
    /\ last.op = "add"
    /\ migr.calls = 0
    /\ migr.entries >= 2
    /\ ActiveBits(hashmap) > hashmap.tables[SourceIdx].hashbits

\* C33: a call of isc_hashmap_delete starts a shrink (the other table
\* becomes the active one) exactly when at entry no rehash is in progress,
\* the active bits are above 1 and count < floor(205 * capacity / 1024);
\* the new active table has exactly one bit less and at least 1 bit; and
\* the call, whichever table holds the key after the shrink has started,
\* returns ISC_R_SUCCESS exactly for a key that was stored and removes it
ShrinkStartsUnderThreshold ==
    [][/\ hashmap'.aborted = NoAbort
       /\ Called({"delete"}) =>
              /\ Resized <=>
                     /\ ~Rehashing
                     /\ ActiveBits(hashmap) > 1
                     /\ hashmap.count <
                            (205 * hashmap.tables[hashmap.hindex].size)
                                \div 1024
              /\ Resized =>
                     /\ ActiveBits(hashmap') = ActiveBits(hashmap) - 1
                     /\ ActiveBits(hashmap') >= 1
              /\ \A key \in Keys :
                     Delete(key) =>
                         /\ last'.result = ISC_R_SUCCESS
                                <=> dict[Denoted(key)] # NULL
                         /\ KeysOf(hashmap', 0) \cup KeysOf(hashmap', 1)
                                = (KeysOf(hashmap, 0) \cup KeysOf(hashmap, 1))
                                      \ {key}
      ]_vars

\* a delete has just started a shrink of a map of two entries and found
\* its key in the old table, after the other entry had moved to the new one
ShrinkStartsUnderThresholdWitness ==
    /\ Rehashing
    /\ last = [op |-> "delete", result |-> ISC_R_SUCCESS]
    /\ migr = [entries |-> 2, calls |-> 0]
    /\ ActiveBits(hashmap) = hashmap.tables[SourceIdx].hashbits - 1
    /\ KeysOf(hashmap, hashmap.hindex) # {}
    /\ KeysOf(hashmap, SourceIdx) = {}

\* tables[idx] is allocated, with 2^hashbits slots, 1 <= hashbits <= 32 and
\* hashmask = size - 1
Allocated(hm, idx) ==
    LET t == hm.tables[idx]
    IN  /\ t.table # <<>>
        /\ t.hashbits >= 1
        /\ t.hashbits <= 32
        /\ t.size = 2 ^ t.hashbits
        /\ Len(t.table) = t.size
        /\ t.hashmask = t.size - 1

\* C34: in every reachable state of a live map the active table
\* tables[hindex] is allocated with size 2^bits, 1 <= bits <= 32 and
\* mask = size - 1; while a rehash is in progress the other table is
\* allocated too, with a different number of bits; and while no rehash is in
\* progress the other table is the cleared one (no slots, HASHMAP_NO_BITS)
\* and hiter = 0
TablesWellFormed ==
    MapAlive =>
        /\ hashmap.hindex \in {0, 1}
        /\ Allocated(hashmap, hashmap.hindex)
        /\ Rehashing =>
               /\ Allocated(hashmap, SourceIdx)
               /\ hashmap.tables[SourceIdx].hashbits # ActiveBits(hashmap)
               /\ hashmap.hiter <= hashmap.tables[SourceIdx].size
        /\ ~Rehashing =>
               /\ hashmap.tables[SourceIdx] = NoTable
               /\ hashmap.hiter = 0

\* a shrink is half done: both tables are allocated, the old one is the
\* larger one and hiter has left its start
TablesWellFormedWitness ==
    /\ Rehashing
    /\ hashmap.hiter > 0
    /\ hashmap.tables[SourceIdx].size > hashmap.tables[hashmap.hindex].size
    /\ Stored(SourceIdx) # {}
    /\ Stored(hashmap.hindex) # {}

\* the active table of hm has no empty slot
Full(hm) == UsedSlots(hm, hm.hindex) = hm.tables[hm.hindex].size

DestroyReachesZero ==
    [][Called({"destroy"}) =>
           /\ hashmap'.aborted = NoAbort
           /\ hashmap'.count = 0
           /\ hashmap.count = UsedSlots(hashmap, 0) + UsedSlots(hashmap, 1)
           /\ ~hashmap'.magic
           /\ \A idx \in {0, 1} : hashmap'.tables[idx] = NoTable
      ]_vars

\* a map that held two entries or more was destroyed while a rehash was in
\* progress in which hiter had left the start of the old table
DestroyReachesZeroWitness ==
    /\ last.op = "destroy"
    /\ hashmap.aborted = NoAbort
    /\ hashmap.count = 0
    /\ hashmap.hiter > 0
    /\ Cardinality({k \in Keys : dict[k] # NULL}) >= 2

(* ======================= TLS context cache (tls.c) ===================== *)

ISC_R_FAILURE == "ISC_R_FAILURE"

\* isc_tlsctx_cache_transport_t
isc_tlsctx_cache_none == 0
isc_tlsctx_cache_tls == 1
isc_tlsctx_cache_https == 2
isc_tlsctx_cache_count == 3

AF_INET == "AF_INET"
AF_INET6 == "AF_INET6"

isc_rwlocktype_read == "isc_rwlocktype_read"
isc_rwlocktype_write == "isc_rwlocktype_write"

Threads == 1 .. NumThreads
\* the non-empty names the callers use
Names == 1 .. NumNames
\* the transports the REQUIREs of add and find let through
Transports ==
    {tr \in isc_tlsctx_cache_none .. isc_tlsctx_cache_count :
        tr > isc_tlsctx_cache_none /\ tr < isc_tlsctx_cache_count}
Families == {AF_INET, AF_INET6}
\* isc_tlsctx_t pointers (NULL is none)
Ctxs == 1 .. MaxCtx
\* the (name, transport, family) triples
Slots == Names \X Transports \X Families

\* a bool used as an array index
BoolIndex(b) == IF b THEN 1 ELSE 0

\* a zeroed isc_tlsctx_cache_entry_t; present tells whether the table of
\* the cache holds an entry under the name
ZeroEntry ==
    [present |-> FALSE,
     ctx |-> [i \in 0 .. (isc_tlsctx_cache_count - 2) |->
                 [k \in 0 .. 1 |-> NULL]]]

(* ------------------------- isc_ht, isc_rwlock -------------------------- *)

\* the table of the cache: name -> entry
isc_ht_init == [n \in Names |-> ZeroEntry]

isc_ht_find(ht, name) ==
    IF ht[name].present
      THEN [result |-> ISC_R_SUCCESS, value |-> ht[name]]
      ELSE [result |-> ISC_R_NOTFOUND, value |-> ZeroEntry]

isc_ht_add(ht, name, entry) ==
    IF ht[name].present
      THEN [ht |-> ht, result |-> ISC_R_EXISTS]
      ELSE [ht |-> [ht EXCEPT ![name] = entry], result |-> ISC_R_SUCCESS]

\* isc_ht_iter_first: some entry of the table, or NOMORE
isc_ht_iter_first(ht) ==
    IF \A n \in Names : ~ht[n].present
      THEN [result |-> ISC_R_NOMORE, name |-> NULL]
      ELSE [result |-> ISC_R_SUCCESS,
            name |-> CHOOSE n \in Names : ht[n].present]

\* isc_ht_iter_delcurrent_next: the table without the current entry
isc_ht_iter_delcurrent_next(ht, name) == [ht EXCEPT ![name] = ZeroEntry]

\* a read-write lock: the thread that holds it for writing (NULL is none)
\* and the threads that hold it for reading
isc_rwlock_init == [writer |-> NULL, readers |-> {}]

\* isc_rwlock_lock(rwl, type) would return without waiting
rwlock_available(rwl, type) ==
    IF type = isc_rwlocktype_write
      THEN rwl.writer = NULL /\ rwl.readers = {}
      ELSE rwl.writer = NULL

isc_rwlock_lock(rwl, type, t) ==
    IF type = isc_rwlocktype_write
      THEN [rwl EXCEPT !.writer = t]
      ELSE [rwl EXCEPT !.readers = @ \cup {t}]

isc_rwlock_unlock(rwl, type, t) ==
    IF type = isc_rwlocktype_write
      THEN [rwl EXCEPT !.writer = NULL]
      ELSE [rwl EXCEPT !.readers = @ \ {t}]

(* --------------------------- cache operations -------------------------- *)

isc_tlsctx_cache_new ==
    [magic |-> TRUE,
     references |-> 1,
     rwlock |-> isc_rwlock_init,
     data |-> isc_ht_init]

isc_tlsctx_cache_attach(source) == [source EXCEPT !.references = @ + 1]

\* one more free of ctx (counted up to 2)
isc_tlsctx_free(m, ctx) ==
    [m EXCEPT !.ctxfree[ctx] = IF @ < 2 THEN @ + 1 ELSE @]

RECURSIVE tlsctx_cache_entry_destroy_loop(_, _, _, _)
\* the loops of tlsctx_cache_entry_destroy that leave out the IPv6 column
tlsctx_cache_entry_destroy_loop_only_v4(m, entry, i, k) ==
    IF i >= isc_tlsctx_cache_count - 1
      THEN m
      ELSE IF k >= 1
             THEN tlsctx_cache_entry_destroy_loop(m, entry, i + 1, 0)
             ELSE tlsctx_cache_entry_destroy_loop(
                      IF entry.ctx[i][k] # NULL
                        THEN isc_tlsctx_free(m, entry.ctx[i][k])
                        ELSE m,
                      entry, i, k + 1)

\* for (i ...) for (k ...) of tlsctx_cache_entry_destroy
tlsctx_cache_entry_destroy_loop(m, entry, i, k) ==
    IF i >= isc_tlsctx_cache_count - 1
      THEN m
      ELSE IF k >= 2
             THEN tlsctx_cache_entry_destroy_loop(m, entry, i + 1, 0)
             ELSE tlsctx_cache_entry_destroy_loop(
                      IF entry.ctx[i][k] # NULL
                        THEN isc_tlsctx_free(m, entry.ctx[i][k])
                        ELSE m,
                      entry, i, k + 1)

tlsctx_cache_entry_destroy(m, name, entry) ==
    LET m1 == tlsctx_cache_entry_destroy_loop(m, entry, 0, 0)
    IN  [m1 EXCEPT !.entryfree[name] = IF @ < 2 THEN @ + 1 ELSE @]

RECURSIVE tlsctx_cache_destroy_loop(_, _)
tlsctx_cache_destroy_loop(ht, m) ==
    LET it == isc_ht_iter_first(ht)
    IN  IF it.result # ISC_R_SUCCESS
          THEN [ht |-> ht, mem |-> m]
          ELSE tlsctx_cache_destroy_loop(
                   isc_ht_iter_delcurrent_next(ht, it.name),
                   tlsctx_cache_entry_destroy(m, it.name, ht[it.name]))

tlsctx_cache_destroy(c, m) ==
    LET r == tlsctx_cache_destroy_loop(c.data, m)
    IN  [cache |-> [c EXCEPT !.magic = FALSE, !.data = r.ht],
         mem |-> r.mem,
         destroyed |-> TRUE]

\* isc_tlsctx_cache_detach that destroys when it drops the count to 1
isc_tlsctx_cache_detach_early(c, m) ==
    LET prev == c.references
        c1 == [c EXCEPT !.references = prev - 1]
    IN  IF prev = 2
          THEN tlsctx_cache_destroy(c1, m)
          ELSE [cache |-> c1, mem |-> m, destroyed |-> FALSE]

\* prev is what isc_refcount_decrement returns: the count before it
isc_tlsctx_cache_detach(c, m) ==
    LET prev == c.references
        c1 == [c EXCEPT !.references = prev - 1]
    IN  IF prev = 1
          THEN tlsctx_cache_destroy(c1, m)
          ELSE [cache |-> c1, mem |-> m, destroyed |-> FALSE]

\* isc_tlsctx_cache_add taking the lock as a reader
isc_tlsctx_cache_add_shared == isc_rwlocktype_read

\* isc_tlsctx_cache_add taking the lock as a reader
isc_tlsctx_cache_add_locks_read == isc_rwlocktype_read

\* the lock type of the RWLOCK of isc_tlsctx_cache_add
isc_tlsctx_cache_add_locktype == isc_rwlocktype_write

\* the lock type of the RWUNLOCK of isc_tlsctx_cache_add
isc_tlsctx_cache_add_unlocktype == isc_rwlocktype_write

\* the lock type of the RWLOCK of isc_tlsctx_cache_find
isc_tlsctx_cache_find_locktype == isc_rwlocktype_read

\* isc_tlsctx_cache_find releasing a lock type it did not take
isc_tlsctx_cache_find_unlocks_write == isc_rwlocktype_write

\* the lock type of the RWUNLOCK of isc_tlsctx_cache_find
isc_tlsctx_cache_find_unlocktype == isc_rwlocktype_read

\* isc_tlsctx_cache_add that installs ctx over the context it found
isc_tlsctx_cache_add_overwrites(c, name, transport, family, ctx, given) ==
    LET tr_offset == transport - 1
        ipv6 == BoolIndex(family = AF_INET6)
        r == isc_ht_find(c.data, name)
        entry == r.value
    IN  IF r.result = ISC_R_SUCCESS /\ entry.ctx[tr_offset][ipv6] # NULL
          THEN [cache |->
                    [c EXCEPT !.data[name].ctx[tr_offset][ipv6] = ctx],
                result |-> ISC_R_EXISTS,
                found |-> IF given THEN entry.ctx[tr_offset][ipv6]
                                   ELSE NULL]
          ELSE IF r.result = ISC_R_SUCCESS
                    /\ entry.ctx[tr_offset][ipv6] = NULL
                 THEN [cache |->
                           [c EXCEPT !.data[name].ctx[tr_offset][ipv6] = ctx],
                       result |-> ISC_R_SUCCESS,
                       found |-> NULL]
                 ELSE LET new == [ZeroEntry EXCEPT
                                      !.present = TRUE,
                                      !.ctx[tr_offset][ipv6] = ctx]
                      IN  [cache |->
                               [c EXCEPT !.data =
                                    isc_ht_add(c.data, name, new).ht],
                           result |-> ISC_R_SUCCESS,
                           found |-> NULL]

\* isc_tlsctx_cache_add that makes a new entry whenever the slot is empty
isc_tlsctx_cache_add_new_entry(c, name, transport, family, ctx, given) ==
    LET tr_offset == transport - 1
        ipv6 == BoolIndex(family = AF_INET6)
        r == isc_ht_find(c.data, name)
        entry == r.value
    IN  IF r.result = ISC_R_SUCCESS /\ entry.ctx[tr_offset][ipv6] # NULL
          THEN [cache |-> c,
                result |-> ISC_R_EXISTS,
                found |-> IF given THEN entry.ctx[tr_offset][ipv6]
                                   ELSE NULL]
          ELSE IF r.result = ISC_R_SUCCESS
                    /\ entry.ctx[tr_offset][ipv6] = NULL
                 THEN [cache |->
                           [c EXCEPT !.data[name] =
                                [ZeroEntry EXCEPT
                                     !.present = TRUE,
                                     !.ctx[tr_offset][ipv6] = ctx]],
                       result |-> ISC_R_SUCCESS,
                       found |-> NULL]
                 ELSE LET new == [ZeroEntry EXCEPT
                                      !.present = TRUE,
                                      !.ctx[tr_offset][ipv6] = ctx]
                      IN  [cache |->
                               [c EXCEPT !.data =
                                    isc_ht_add(c.data, name, new).ht],
                           result |-> ISC_R_SUCCESS,
                           found |-> NULL]

\* isc_tlsctx_cache_add that stores ctx in *pfound when it fills a slot
isc_tlsctx_cache_add_reports_new(c, name, transport, family, ctx, given) ==
    LET tr_offset == transport - 1
        ipv6 == BoolIndex(family = AF_INET6)
        r == isc_ht_find(c.data, name)
        entry == r.value
    IN  IF r.result = ISC_R_SUCCESS /\ entry.ctx[tr_offset][ipv6] # NULL
          THEN [cache |-> c,
                result |-> ISC_R_EXISTS,
                found |-> IF given THEN entry.ctx[tr_offset][ipv6]
                                   ELSE NULL]
          ELSE IF r.result = ISC_R_SUCCESS
                    /\ entry.ctx[tr_offset][ipv6] = NULL
                 THEN [cache |->
                           [c EXCEPT !.data[name].ctx[tr_offset][ipv6] = ctx],
                       result |-> ISC_R_SUCCESS,
                       found |-> IF given THEN ctx ELSE NULL]
                 ELSE LET new == [ZeroEntry EXCEPT
                                      !.present = TRUE,
                                      !.ctx[tr_offset][ipv6] = ctx]
                      IN  [cache |->
                               [c EXCEPT !.data =
                                    isc_ht_add(c.data, name, new).ht],
                           result |-> ISC_R_SUCCESS,
                           found |-> NULL]

\* the locked part of isc_tlsctx_cache_add; given tells whether pfound is
\* non-NULL, found is *pfound after the call (NULL before it)
isc_tlsctx_cache_add(c, name, transport, family, ctx, given) ==
    LET tr_offset == transport - 1
        ipv6 == BoolIndex(family = AF_INET6)
        r == isc_ht_find(c.data, name)
        entry == r.value
    IN  IF r.result = ISC_R_SUCCESS /\ entry.ctx[tr_offset][ipv6] # NULL
          THEN [cache |-> c,
                result |-> ISC_R_EXISTS,
                found |-> IF given THEN entry.ctx[tr_offset][ipv6]
                                   ELSE NULL]
          ELSE IF r.result = ISC_R_SUCCESS
                    /\ entry.ctx[tr_offset][ipv6] = NULL
                 THEN [cache |->
                           [c EXCEPT !.data[name].ctx[tr_offset][ipv6] = ctx],
                       result |-> ISC_R_SUCCESS,
                       found |-> NULL]
                 ELSE LET new == [ZeroEntry EXCEPT
                                      !.present = TRUE,
                                      !.ctx[tr_offset][ipv6] = ctx]
                      IN  [cache |->
                               [c EXCEPT !.data =
                                    isc_ht_add(c.data, name, new).ht],
                           result |-> ISC_R_SUCCESS,
                           found |-> NULL]

\* isc_tlsctx_cache_find that reads the IPv4 column for every family
isc_tlsctx_cache_find_v4(c, name, transport, family) ==
    LET tr_offset == transport - 1
        ipv6 == BoolIndex(FALSE)
        r == isc_ht_find(c.data, name)
        entry == r.value
    IN  IF r.result = ISC_R_SUCCESS /\ entry.ctx[tr_offset][ipv6] # NULL
          THEN [result |-> ISC_R_SUCCESS,
                pctx |-> entry.ctx[tr_offset][ipv6]]
          ELSE IF r.result = ISC_R_SUCCESS
                    /\ entry.ctx[tr_offset][ipv6] = NULL
                 THEN [result |-> ISC_R_NOTFOUND, pctx |-> NULL]
                 ELSE [result |-> r.result, pctx |-> NULL]

\* the locked part of isc_tlsctx_cache_find; pctx is *pctx after the call
isc_tlsctx_cache_find(c, name, transport, family) ==
    LET tr_offset == transport - 1
        ipv6 == BoolIndex(family = AF_INET6)
        r == isc_ht_find(c.data, name)
        entry == r.value
    IN  IF r.result = ISC_R_SUCCESS /\ entry.ctx[tr_offset][ipv6] # NULL
          THEN [result |-> ISC_R_SUCCESS,
                pctx |-> entry.ctx[tr_offset][ipv6]]
          ELSE IF r.result = ISC_R_SUCCESS
                    /\ entry.ctx[tr_offset][ipv6] = NULL
                 THEN [result |-> ISC_R_NOTFOUND, pctx |-> NULL]
                 ELSE [result |-> r.result, pctx |-> NULL]

(* ------------------------------ cache state ---------------------------- *)

\* a thread that is in no cache call
Idle ==
    [pc |-> "idle", name |-> NULL, transport |-> isc_tlsctx_cache_none,
     family |-> AF_INET, ctx |-> NULL, given |-> FALSE, found |-> NULL,
     result |-> ISC_R_FAILURE, pctx |-> NULL, saw |-> NULL, slot |-> NULL]

\* the slot a thread's call is about
SlotOf(t) == <<thr[t].name, thr[t].transport, thr[t].family>>

\* what the cache holds in a slot
SlotCtx(c, slot) ==
    c.data[slot[1]].ctx[slot[2] - 1][BoolIndex(slot[3] = AF_INET6)]

\* thread 1 has created the cache and holds the pointer new returned
InitCache ==
    /\ cache = isc_tlsctx_cache_new
    /\ thr = [t \in Threads |-> Idle]
    /\ refs = [t \in Threads |-> IF t = 1 THEN 1 ELSE 0]
    /\ ctxs = [c \in Ctxs |-> "unused"]
    /\ mem = [ctxfree |-> [c \in Ctxs |-> 0],
              entryfree |-> [n \in Names |-> 0]]
    /\ published = [s \in Slots |-> NULL]
    /\ counts = [attach |-> 0, detach |-> 0, destroy |-> 0,
                 destroyer |-> NULL]
    /\ OnlyCacheUsed

\* thread t may call into the cache: it holds a pointer to a valid cache
MayCall(t) == thr[t].pc = "idle" /\ refs[t] > 0 /\ cache.magic

\* thread t attaches and hands the new pointer to thread u
CacheAttach(t, u) ==
    /\ MayCall(t)
    /\ counts.attach < MaxAttach
    /\ cache' = isc_tlsctx_cache_attach(cache)
    /\ refs' = [refs EXCEPT ![u] = @ + 1]
    /\ counts' = [counts EXCEPT !.attach = @ + 1]
    /\ UNCHANGED <<thr, ctxs, mem, published>>
    /\ UNCHANGED other_than_cache

CacheDetach(t) ==
    LET r == isc_tlsctx_cache_detach(cache, mem)
    IN  /\ MayCall(t)
        /\ cache' = r.cache
        /\ mem' = r.mem
        /\ refs' = [refs EXCEPT ![t] = @ - 1]
        /\ counts' = [counts EXCEPT
                          !.detach = @ + 1,
                          !.destroy = IF r.destroyed THEN @ + 1 ELSE @,
                          !.destroyer = IF r.destroyed THEN t ELSE @]
        /\ UNCHANGED <<thr, ctxs, published>>
        /\ UNCHANGED other_than_cache

\* thread t calls add with a context it owns (a new one or one an earlier
\* add rejected) and gets the lock
CacheAddLock(t, name, transport, family, ctx, given) ==
    /\ MayCall(t)
    /\ \/ ctxs[ctx] = "rejected"
       \/ /\ ctxs[ctx] = "unused"
          /\ \A c \in Ctxs : c < ctx => ctxs[c] # "unused"
    /\ rwlock_available(cache.rwlock, isc_tlsctx_cache_add_locktype)
    /\ cache' = [cache EXCEPT !.rwlock =
                     isc_rwlock_lock(@, isc_tlsctx_cache_add_locktype, t)]
    /\ thr' = [thr EXCEPT ![t] =
                   [Idle EXCEPT !.pc = "add_cs", !.name = name,
                                !.transport = transport, !.family = family,
                                !.ctx = ctx, !.given = given]]
    /\ ctxs' = [ctxs EXCEPT ![ctx] = "passed"]
    /\ UNCHANGED <<refs, mem, published, counts>>
    /\ UNCHANGED other_than_cache

CacheAddBody(t) ==
    LET r == isc_tlsctx_cache_add(cache, thr[t].name, thr[t].transport,
                                  thr[t].family, thr[t].ctx, thr[t].given)
    IN  /\ thr[t].pc = "add_cs"
        /\ cache' = r.cache
        /\ thr' = [thr EXCEPT ![t] =
                       [@ EXCEPT !.pc = "add_unlock", !.result = r.result,
                                 !.found = r.found]]
        /\ UNCHANGED <<refs, ctxs, mem, published, counts>>
        /\ UNCHANGED other_than_cache

\* add unlocks and returns: the cache owns the context after SUCCESS
CacheAddUnlock(t) ==
    /\ thr[t].pc = "add_unlock"
    /\ cache' = [cache EXCEPT !.rwlock =
                     isc_rwlock_unlock(@, isc_tlsctx_cache_add_unlocktype, t)]
    /\ thr' = [thr EXCEPT ![t] = Idle]
    /\ ctxs' = [ctxs EXCEPT ![thr[t].ctx] =
                    IF thr[t].result = ISC_R_SUCCESS THEN "cache"
                                                     ELSE "rejected"]
    /\ published' = IF thr[t].result = ISC_R_SUCCESS
                         /\ published[SlotOf(t)] = NULL
                      THEN [published EXCEPT ![SlotOf(t)] = thr[t].ctx]
                      ELSE published
    /\ UNCHANGED <<refs, mem, counts>>
    /\ UNCHANGED other_than_cache

\* thread t calls find and gets the lock; saw is what the adds that have
\* returned by now installed in the slot
CacheFindLock(t, name, transport, family) ==
    /\ MayCall(t)
    /\ rwlock_available(cache.rwlock, isc_tlsctx_cache_find_locktype)
    /\ cache' = [cache EXCEPT !.rwlock =
                     isc_rwlock_lock(@, isc_tlsctx_cache_find_locktype, t)]
    /\ thr' = [thr EXCEPT ![t] =
                   [Idle EXCEPT !.pc = "find_cs", !.name = name,
                                !.transport = transport, !.family = family,
                                !.saw = published[<<name, transport,
                                                    family>>]]]
    /\ UNCHANGED <<refs, ctxs, mem, published, counts>>
    /\ UNCHANGED other_than_cache

CacheFindBody(t) ==
    LET r == isc_tlsctx_cache_find(cache, thr[t].name, thr[t].transport,
                                   thr[t].family)
    IN  /\ thr[t].pc = "find_cs"
        /\ thr' = [thr EXCEPT ![t] =
                       [@ EXCEPT !.pc = "find_unlock", !.result = r.result,
                                 !.pctx = r.pctx]]
        /\ UNCHANGED <<cache, refs, ctxs, mem, published, counts>>
        /\ UNCHANGED other_than_cache

CacheFindUnlock(t) ==
    /\ thr[t].pc = "find_unlock"
    /\ cache' = [cache EXCEPT !.rwlock =
                     isc_rwlock_unlock(@, isc_tlsctx_cache_find_unlocktype,
                                       t)]
    /\ thr' = [thr EXCEPT ![t] = Idle]
    /\ UNCHANGED <<refs, ctxs, mem, published, counts>>
    /\ UNCHANGED other_than_cache

NextCache ==
    \/ \E t \in Threads, u \in Threads : CacheAttach(t, u)
    \/ \E t \in Threads : CacheDetach(t)
    \/ \E t \in Threads, name \in Names, transport \in Transports,
          family \in Families, ctx \in Ctxs, given \in BOOLEAN :
           CacheAddLock(t, name, transport, family, ctx, given)
    \/ \E t \in Threads : CacheAddBody(t)
    \/ \E t \in Threads : CacheAddUnlock(t)
    \/ \E t \in Threads, name \in Names, transport \in Transports,
          family \in Families : CacheFindLock(t, name, transport, family)
    \/ \E t \in Threads : CacheFindBody(t)
    \/ \E t \in Threads : CacheFindUnlock(t)

SpecCache == InitCache /\ [][NextCache]_cvars

(* ---------------------------- cache views ------------------------------ *)

\* thread t is between the RWLOCK and the RWUNLOCK of add / of find
InAdd(t) == thr[t].pc \in {"add_cs", "add_unlock"}
InFind(t) == thr[t].pc \in {"find_cs", "find_unlock"}

\* thread t runs the locked part of add in this step
AddBodyStep(t) == thr[t].pc = "add_cs" /\ thr'[t].pc = "add_unlock"

\* the slots other than slot keep their content in this step
OtherSlotsKept(slot) ==
    \A s \in Slots : s # slot => SlotCtx(cache', s) = SlotCtx(cache, s)

\* the cache pointers the threads hold
RECURSIVE SumRefs(_)
SumRefs(T) ==
    IF T = {} THEN 0
    ELSE LET t == CHOOSE x \in T : TRUE
         IN  refs[t] + SumRefs(T \ {t})

\* an add for the name has returned SUCCESS: the name has an entry
EntryMade(name) == \E s \in Slots : s[1] = name /\ published[s] # NULL

Destroyed == ~cache.magic

(* ---------------------------- cache claims ----------------------------- *)

\* C14: an add on a slot that is filled returns EXISTS, stores the context
\* it found in *pfound when pfound is given, does not install the caller's
\* context and leaves the cache as it was; an add on an empty slot installs
\* the context and returns SUCCESS.
AddExistsRejects ==
    [][\A t \in Threads :
           AddBodyStep(t) =>
               LET old == SlotCtx(cache, SlotOf(t))
               IN  IF old # NULL
                     THEN /\ thr'[t].result = ISC_R_EXISTS
                          /\ thr'[t].found = IF thr[t].given THEN old
                                                              ELSE NULL
                          /\ cache' = cache
                          /\ \A s \in Slots :
                                 SlotCtx(cache', s) # thr[t].ctx
                     ELSE /\ thr'[t].result = ISC_R_SUCCESS
                          /\ SlotCtx(cache', SlotOf(t)) = thr[t].ctx]_cvars

\* C14 witness: an add with pfound given has found another context in its
\* slot and is about to return EXISTS
AddExistsRejectsWitness ==
    \E t \in Threads :
        /\ thr[t].pc = "add_unlock"
        /\ thr[t].result = ISC_R_EXISTS
        /\ thr[t].given
        /\ thr[t].found # NULL
        /\ thr[t].found # thr[t].ctx
        /\ SlotCtx(cache, SlotOf(t)) = thr[t].found

\* C15: a find for (name, transport, family) returns the context of the
\* first add that returned SUCCESS for exactly that triple, and NOTFOUND
\* with *pctx left NULL when no add for the triple has succeeded, whatever
\* the other slots of the name hold.
FindReturnsFirstAdded ==
    \A t \in Threads :
        (thr[t].pc = "find_unlock") =>
            IF published[SlotOf(t)] # NULL
              THEN /\ thr[t].result = ISC_R_SUCCESS
                   /\ thr[t].pctx = published[SlotOf(t)]
              ELSE /\ thr[t].result = ISC_R_NOTFOUND
                   /\ thr[t].pctx = NULL

\* C15 witness: of two finds for one name and transport the IPv4 one is
\* about to return a context and the IPv6 one NOTFOUND
FindReturnsFirstAddedWitness ==
    \E t \in Threads, u \in Threads :
        /\ thr[t].pc = "find_unlock"
        /\ thr[u].pc = "find_unlock"
        /\ thr[t].name = thr[u].name
        /\ thr[t].transport = thr[u].transport
        /\ thr[t].family = AF_INET
        /\ thr[u].family = AF_INET6
        /\ thr[t].result = ISC_R_SUCCESS
        /\ thr[t].pctx # NULL
        /\ thr[u].result = ISC_R_NOTFOUND

\* C16: once an add for a slot has returned SUCCESS the slot holds that
\* context until the cache is destroyed, and every find that starts after
\* the add returned gets SUCCESS and that context.
PublishedSlotStays ==
    /\ \A s \in Slots :
           (published[s] # NULL /\ ~Destroyed) =>
               SlotCtx(cache, s) = published[s]
    /\ \A t \in Threads :
           (thr[t].pc = "find_unlock" /\ thr[t].saw # NULL) =>
               /\ thr[t].result = ISC_R_SUCCESS
               /\ thr[t].pctx = thr[t].saw

\* C16 witness: both threads are in a find for a slot that was filled before
\* they started, after a later add for the name was rejected and another
\* slot of the name was filled
PublishedSlotStaysWitness ==
    \E t \in Threads, u \in Threads :
        /\ t # u
        /\ thr[t].pc = "find_unlock"
        /\ thr[u].pc = "find_unlock"
        /\ SlotOf(t) = SlotOf(u)
        /\ thr[t].saw # NULL
        /\ thr[u].pctx = thr[t].saw
        /\ \E s \in Slots :
               /\ s # SlotOf(t)
               /\ s[1] = thr[t].name
               /\ published[s] # NULL

\* C17: while a thread is between the RWLOCK and the RWUNLOCK of add, no
\* other thread is between those of add or of find (several threads may be
\* between those of find at one time).
AddExcludesOthers ==
    \A t \in Threads :
        InAdd(t) => \A u \in Threads \ {t} : ~InAdd(u) /\ ~InFind(u)

\* C17 witness: after an add has filled a slot, two threads are in the
\* locked part of find at one time
AddExcludesOthersWitness ==
    /\ \E s \in Slots : published[s] # NULL
    /\ \E t \in Threads, u \in Threads :
           /\ t # u
           /\ InFind(t)
           /\ InFind(u)
           /\ cache.rwlock.readers = {t, u}

\* C18: the cache starts with one reference; however the threads interleave
\* attach and detach, the cache is destroyed at most once, exactly by the
\* detach that takes the count from 1 to 0, which is detach number
\* (attaches + 1), and never while a thread still holds a pointer.
DestroyedOnceByLastDetach ==
    /\ counts.destroy <= 1
    /\ cache.references = (1 + counts.attach) - counts.detach
    /\ cache.references = SumRefs(Threads)
    /\ (counts.destroy = 1) <=> (cache.references = 0)
    /\ (counts.destroy = 1) <=> Destroyed
    /\ Destroyed =>
           /\ counts.detach = counts.attach + 1
           /\ \A t \in Threads : refs[t] = 0 /\ thr[t].pc = "idle"

\* C18 witness: after two attaches the third detach, made by a thread that
\* did not create the cache, has destroyed it
DestroyedOnceByLastDetachWitness ==
    /\ Destroyed
    /\ counts.attach >= 2
    /\ counts.detach = counts.attach + 1
    /\ counts.destroyer # NULL
    /\ counts.destroyer # 1

\* C19: until the cache is destroyed it frees nothing; when it has been
\* destroyed every context an add installed with SUCCESS has been freed
\* exactly once, every entry has been released exactly once and the table
\* is empty, and no context an add rejected with EXISTS has been freed.
DestroyFreesInstalledOnce ==
    /\ \A c \in Ctxs :
           mem.ctxfree[c] =
               IF Destroyed /\ ctxs[c] = "cache" THEN 1 ELSE 0
    /\ \A n \in Names :
           mem.entryfree[n] = IF Destroyed /\ EntryMade(n) THEN 1 ELSE 0
    /\ Destroyed => \A n \in Names : cache.data[n] = ZeroEntry

\* C19 witness: a cache that held an IPv6 context and had rejected another
\* context has been destroyed
DestroyFreesInstalledOnceWitness ==
    /\ Destroyed
    /\ \E c \in Ctxs : ctxs[c] = "rejected"
    /\ \E s \in Slots :
           /\ s[3] = AF_INET6
           /\ published[s] # NULL
           /\ mem.ctxfree[published[s]] = 1

\* C20: an add for a name that has an entry with the slot empty installs
\* the context in the slot, returns SUCCESS and leaves *pfound alone and
\* the other slots as they were; *pfound is written only when the add
\* returns EXISTS.
AddFillsEmptySlotOfEntry ==
    [][\A t \in Threads :
           AddBodyStep(t) =>
               /\ (/\ cache.data[thr[t].name].present
                   /\ SlotCtx(cache, SlotOf(t)) = NULL) =>
                      /\ thr'[t].result = ISC_R_SUCCESS
                      /\ SlotCtx(cache', SlotOf(t)) = thr[t].ctx
                      /\ thr'[t].found = NULL
                      /\ OtherSlotsKept(SlotOf(t))
               /\ (thr'[t].found # NULL) =>
                      thr'[t].result = ISC_R_EXISTS]_cvars

\* C20 witness: an add with pfound given has filled the second slot of a
\* name and left *pfound NULL
AddFillsEmptySlotOfEntryWitness ==
    \E t \in Threads :
        /\ thr[t].pc = "add_unlock"
        /\ thr[t].result = ISC_R_SUCCESS
        /\ thr[t].given
        /\ thr[t].found = NULL
        /\ SlotCtx(cache, SlotOf(t)) = thr[t].ctx
        /\ \E s \in Slots :
               /\ s # SlotOf(t)
               /\ s[1] = thr[t].name
               /\ SlotCtx(cache, s) # NULL

\* C21: add and find release the lock of the cache on every return path:
\* a thread that is in no cache call holds the lock neither as writer nor
\* as reader, and when no thread is in a call the lock is free for the
\* next caller.
LockReleasedOnReturn ==
    /\ \A t \in Threads :
           (thr[t].pc = "idle") =>
               /\ cache.rwlock.writer # t
               /\ t \notin cache.rwlock.readers
    /\ (\A t \in Threads : thr[t].pc = "idle") =>
           /\ cache.rwlock = isc_rwlock_init
           /\ rwlock_available(cache.rwlock, isc_rwlocktype_write)
           /\ rwlock_available(cache.rwlock, isc_rwlocktype_read)

\* C21 witness: after adds that returned SUCCESS and EXISTS and with a
\* live cache every thread is out of its call and the lock is free
LockReleasedOnReturnWitness ==
    /\ ~Destroyed
    /\ \A t \in Threads : thr[t].pc = "idle"
    /\ \E c \in Ctxs : ctxs[c] = "rejected"
    /\ \E s \in Slots : published[s] # NULL
    /\ cache.rwlock = isc_rwlock_init

(* ================= crypto provider initialisation (tls.c) =============== *)

\* isc_once_t: the routine has not run, is running, has run
ISC_ONCE_INIT == "ISC_ONCE_INIT"
ONCE_RUNNING == "running"
ONCE_DONE == "done"

\* what RAND_status() can return
RandStatus == {0, 1}

\* isc_once_do lets the caller in: no other thread is running the routine
once_passable(once) == once # ONCE_RUNNING

\* tls_initialize up to the provider calls
tls_initialize_begin(st) ==
    IF st.init_done
      THEN Abort(st, "tls_initialize: REQUIRE(!init_done)")
      ELSE st

\* the end of tls_initialize without the compare-and-exchange of init_done
tls_initialize_end_no_flag(st, rand_status) ==
    IF rand_status # 1
      THEN Abort(st, "tls_initialize: FATAL_ERROR")
      ELSE st

\* tls_initialize from RAND_status() on
tls_initialize_end(st, rand_status) ==
    IF rand_status # 1
      THEN Abort(st, "tls_initialize: FATAL_ERROR")
      ELSE IF st.init_done # FALSE
             THEN Abort(st, "tls_initialize: REQUIRE(compare_exchange)")
             ELSE [st EXCEPT !.init_done = TRUE]

\* isc__tls_initialize after isc_once_do
isc__tls_initialize_return(st) ==
    IF ~st.init_done
      THEN Abort(st, "isc__tls_initialize: REQUIRE(init_done)")
      ELSE st

\* tls_shutdown that does not require init_done
tls_shutdown_begin_unchecked(st) ==
    IF st.shut_done
      THEN Abort(st, "tls_shutdown: REQUIRE(!shut_done)")
      ELSE st

\* tls_shutdown up to the provider calls
tls_shutdown_begin(st) ==
    IF ~st.init_done
      THEN Abort(st, "tls_shutdown: REQUIRE(init_done)")
      ELSE IF st.shut_done
             THEN Abort(st, "tls_shutdown: REQUIRE(!shut_done)")
             ELSE st

\* tls_shutdown after the provider calls
tls_shutdown_end(st) ==
    IF st.shut_done # FALSE
      THEN Abort(st, "tls_shutdown: REQUIRE(compare_exchange)")
      ELSE [st EXCEPT !.shut_done = TRUE]

\* isc__tls_shutdown after isc_once_do
isc__tls_shutdown_return(st) ==
    IF ~st.shut_done
      THEN Abort(st, "isc__tls_shutdown: REQUIRE(shut_done)")
      ELSE st

\* a thread that has made no call; returned is the call it returned from
\* last, late tells whether its call began after shut_done was set
TlsIdle == [pc |-> "idle", returned |-> "none", late |-> FALSE]

\* one more run (counted up to 2)
OneMore(n) == IF n < 2 THEN n + 1 ELSE n

InitTls ==
    /\ tls = [init_once |-> ISC_ONCE_INIT, shut_once |-> ISC_ONCE_INIT,
              init_done |-> FALSE, shut_done |-> FALSE,
              aborted |-> NoAbort]
    /\ tlsthr = [t \in Threads |-> TlsIdle]
    /\ tlsruns = [init |-> 0, shut |-> 0]
    /\ OnlyTlsUsed

\* thread t may take a step: the process is alive
Alive(t, pc) == tls.aborted = NoAbort /\ tlsthr[t].pc = pc

TlsInitializeCall(t) ==
    /\ Alive(t, "idle")
    /\ tlsthr' = [tlsthr EXCEPT ![t] =
                      [pc |-> "init_once", returned |-> "none",
                       late |-> tls.shut_done]]
    /\ UNCHANGED <<tls, tlsruns>>
    /\ UNCHANGED other_than_tls

\* isc_once_do(&init_once, tls_initialize): the first caller starts the
\* routine, a caller that finds it done goes on
TlsInitializeOnce(t) ==
    /\ Alive(t, "init_once")
    /\ once_passable(tls.init_once)
    /\ IF tls.init_once = ISC_ONCE_INIT
         THEN /\ tls' = [tls_initialize_begin(tls) EXCEPT
                             !.init_once = ONCE_RUNNING]
              /\ tlsthr' = [tlsthr EXCEPT ![t].pc = "init_body"]
              /\ tlsruns' = [tlsruns EXCEPT !.init = OneMore(@)]
         ELSE /\ tlsthr' = [tlsthr EXCEPT ![t].pc = "init_check"]
              /\ UNCHANGED <<tls, tlsruns>>
    /\ UNCHANGED other_than_tls

TlsInitializeBody(t, rand_status) ==
    /\ Alive(t, "init_body")
    /\ tls' = [tls_initialize_end(tls, rand_status) EXCEPT
                   !.init_once = ONCE_DONE]
    /\ tlsthr' = [tlsthr EXCEPT ![t].pc = "init_check"]
    /\ UNCHANGED tlsruns
    /\ UNCHANGED other_than_tls

TlsInitializeReturn(t) ==
    /\ Alive(t, "init_check")
    /\ tls' = isc__tls_initialize_return(tls)
    /\ tlsthr' = [tlsthr EXCEPT
                      ![t].pc = "idle",
                      ![t].returned = IF tls'.aborted = NoAbort
                                        THEN "initialize" ELSE "none"]
    /\ UNCHANGED tlsruns
    /\ UNCHANGED other_than_tls

TlsShutdownCall(t) ==
    /\ Alive(t, "idle")
    /\ tlsthr' = [tlsthr EXCEPT ![t] =
                      [pc |-> "shut_once", returned |-> "none",
                       late |-> tls.shut_done]]
    /\ UNCHANGED <<tls, tlsruns>>
    /\ UNCHANGED other_than_tls

TlsShutdownOnce(t) ==
    /\ Alive(t, "shut_once")
    /\ once_passable(tls.shut_once)
    /\ IF tls.shut_once = ISC_ONCE_INIT
         THEN /\ tls' = [tls_shutdown_begin(tls) EXCEPT
                             !.shut_once = ONCE_RUNNING]
              /\ tlsthr' = [tlsthr EXCEPT ![t].pc = "shut_body"]
              /\ tlsruns' = [tlsruns EXCEPT !.shut = OneMore(@)]
         ELSE /\ tlsthr' = [tlsthr EXCEPT ![t].pc = "shut_check"]
              /\ UNCHANGED <<tls, tlsruns>>
    /\ UNCHANGED other_than_tls

TlsShutdownBody(t) ==
    /\ Alive(t, "shut_body")
    /\ tls' = [tls_shutdown_end(tls) EXCEPT !.shut_once = ONCE_DONE]
    /\ tlsthr' = [tlsthr EXCEPT ![t].pc = "shut_check"]
    /\ UNCHANGED tlsruns
    /\ UNCHANGED other_than_tls

TlsShutdownReturn(t) ==
    /\ Alive(t, "shut_check")
    /\ tls' = isc__tls_shutdown_return(tls)
    /\ tlsthr' = [tlsthr EXCEPT
                      ![t].pc = "idle",
                      ![t].returned = IF tls'.aborted = NoAbort
                                        THEN "shutdown" ELSE "none"]
    /\ UNCHANGED tlsruns
    /\ UNCHANGED other_than_tls

NextTls ==
    \/ \E t \in Threads : TlsInitializeCall(t)
    \/ \E t \in Threads : TlsInitializeOnce(t)
    \/ \E t \in Threads, rand_status \in RandStatus :
           TlsInitializeBody(t, rand_status)
    \/ \E t \in Threads : TlsInitializeReturn(t)
    \/ \E t \in Threads : TlsShutdownCall(t)
    \/ \E t \in Threads : TlsShutdownOnce(t)
    \/ \E t \in Threads : TlsShutdownBody(t)
    \/ \E t \in Threads : TlsShutdownReturn(t)

SpecTls == InitTls /\ [][NextTls]_tvars

\* the abort sites that tell a routine ran twice or a call returned early
RepeatAborts ==
    {"tls_initialize: REQUIRE(!init_done)",
     "tls_initialize: REQUIRE(compare_exchange)",
     "isc__tls_initialize: REQUIRE(init_done)",
     "tls_shutdown: REQUIRE(!shut_done)",
     "tls_shutdown: REQUIRE(compare_exchange)",
     "isc__tls_shutdown: REQUIRE(shut_done)"}

\* C22: however many isc__tls_initialize calls the threads make, one after
\* another or at once, tls_initialize runs once, the other calls change
\* nothing, and a call gets past isc_once_do and returns only with
\* init_done true; likewise tls_shutdown runs at most once and shutdown
\* calls return only with shut_done true.
OnceRoutinesRunOnce ==
    /\ tlsruns.init <= 1
    /\ tlsruns.shut <= 1
    /\ tls.aborted \notin RepeatAborts
    /\ \A t \in Threads :
           /\ (tlsthr[t].pc = "init_check" /\ tls.aborted = NoAbort) =>
                  tls.init_done /\ tlsruns.init = 1
           /\ (tlsthr[t].returned = "initialize") =>
                  tls.init_done /\ tlsruns.init = 1
           /\ (tlsthr[t].pc = "shut_check" /\ tls.aborted = NoAbort) =>
                  tls.shut_done /\ tlsruns.shut = 1
           /\ (tlsthr[t].returned = "shutdown") =>
                  tls.shut_done /\ tlsruns.shut = 1

\* C22 witness: one thread has returned from initialize and shutdown calls
\* and another, whose initialize call waited for the routine, from its own
OnceRoutinesRunOnceWitness ==
    \E t \in Threads, u \in Threads :
        /\ t # u
        /\ tlsthr[t].returned = "shutdown"
        /\ tlsthr[u].returned = "initialize"
        /\ ~tlsthr[u].late
        /\ tlsruns = [init |-> 1, shut |-> 1]

\* C23: a shutdown before initialize has completed aborts: while the
\* process has not aborted, shut_done is not true with init_done false and
\* tls_shutdown has not run with init_done false.
ShutdownOnlyAfterInitialize ==
    (tls.aborted = NoAbort) =>
        /\ tls.shut_done => tls.init_done
        /\ (tlsruns.shut >= 1) => tls.init_done

\* C23 witness: a shutdown call made while tls_initialize was running has
\* aborted the process
ShutdownOnlyAfterInitializeWitness ==
    /\ tls.aborted = "tls_shutdown: REQUIRE(init_done)"
    /\ ~tls.init_done
    /\ ~tls.shut_done
    /\ \E t \in Threads : tlsthr[t].pc = "init_body"

\* C24 as stated: no isc__tls_initialize call that began after shutdown
\* completed returns normally.
InitializeAfterShutdownAborts ==
    \A t \in Threads :
        ~(tlsthr[t].returned = "initialize" /\ tlsthr[t].late)

(* ===================== protocol versions (tls.c) ======================= *)

\* isc_tls_protocol_version_t
ISC_TLS_PROTO_VER_1_2 == 1
ISC_TLS_PROTO_VER_1_3 == 2
ISC_TLS_PROTO_VER_UNDEFINED == 3

\* the known protocol versions
ProtoVersions == {ISC_TLS_PROTO_VER_1_2, ISC_TLS_PROTO_VER_1_3}

\* option bits of an SSL_CTX; a long of options is the set of its bits
SSL_OP_NO_TLSv1_2 == "SSL_OP_NO_TLSv1_2"
SSL_OP_NO_TLSv1_3 == "SSL_OP_NO_TLSv1_3"
SSL_OP_NO_COMPRESSION == "SSL_OP_NO_COMPRESSION"
OptionBits == {SSL_OP_NO_TLSv1_2, SSL_OP_NO_TLSv1_3, SSL_OP_NO_COMPRESSION}

\* the masks the callers pass
VersionMasks == 0 .. MaxVersionsMask

\* (x & b) != 0 for a power of two b
HasBit(x, b) == (x \div b) % 2 = 1

\* x & ~b for a power of two b
ClearBit(x, b) == IF HasBit(x, b) THEN x - b ELSE x

\* build tells which SSL_OP_NO_TLSv1_x the provider headers define; the
\* result is 0 (no bit) for a version the build lacks
get_tls_version_disable_bit(tls_ver, build) ==
    IF tls_ver = ISC_TLS_PROTO_VER_1_2
      THEN IF ISC_TLS_PROTO_VER_1_2 \in build THEN {SSL_OP_NO_TLSv1_2}
                                              ELSE {}
      ELSE IF ISC_TLS_PROTO_VER_1_3 \in build THEN {SSL_OP_NO_TLSv1_3}
                                              ELSE {}

isc_tls_protocol_supported(tls_ver, build) ==
    get_tls_version_disable_bit(tls_ver, build) # {}

SSL_CTX_set_options(options, bits) == options \cup bits

SSL_CTX_clear_options(options, bits) == options \ bits

\* the for loop of isc_tlsctx_set_protocols
RECURSIVE set_protocols_loop(_, _, _, _, _, _)
set_protocols_loop(tls_versions, tls_ver, set_options, clear_options, versions, build) ==
    IF ~(tls_ver < ISC_TLS_PROTO_VER_UNDEFINED)
      THEN [set_options |-> set_options, clear_options |-> clear_options,
            versions |-> versions, aborted |-> NoAbort]
      ELSE IF ~HasBit(tls_versions, tls_ver)
             THEN set_protocols_loop(
                      tls_versions, tls_ver * 2,
                      set_options \cup
                          get_tls_version_disable_bit(tls_ver, build),
                      clear_options, ClearBit(versions, tls_ver), build)
             ELSE IF ~isc_tls_protocol_supported(tls_ver, build)
                    THEN [set_options |-> set_options,
                          clear_options |-> clear_options,
                          versions |-> versions,
                          aborted |-> "INSIST(isc_tls_protocol_supported)"]
                    ELSE set_protocols_loop(
                             tls_versions, tls_ver * 2, set_options,
                             clear_options \cup
                                 get_tls_version_disable_bit(tls_ver, build),
                             ClearBit(versions, tls_ver), build)

\* isc_tlsctx_set_protocols that only sets option bits
isc_tlsctx_set_protocols_no_clear(options, tls_versions, build) ==
    IF tls_versions = 0
      THEN [options |-> options, aborted |-> "REQUIRE(tls_versions != 0)"]
      ELSE LET r == set_protocols_loop(tls_versions, ISC_TLS_PROTO_VER_1_2,
                                       {}, {}, tls_versions, build)
           IN  IF r.aborted # NoAbort
                 THEN [options |-> options, aborted |-> r.aborted]
                 ELSE IF r.versions # 0
                        THEN [options |-> options,
                              aborted |-> "INSIST(versions == 0)"]
                        ELSE [options |->
                                  SSL_CTX_set_options(options, r.set_options),
                              aborted |-> NoAbort]

isc_tlsctx_set_protocols(options, tls_versions, build) ==
    IF tls_versions = 0
      THEN [options |-> options, aborted |-> "REQUIRE(tls_versions != 0)"]
      ELSE LET r == set_protocols_loop(tls_versions, ISC_TLS_PROTO_VER_1_2,
                                       {}, {}, tls_versions, build)
           IN  IF r.aborted # NoAbort
                 THEN [options |-> options, aborted |-> r.aborted]
                 ELSE IF r.versions # 0
                        THEN [options |-> options,
                              aborted |-> "INSIST(versions == 0)"]
                        ELSE [options |->
                                  SSL_CTX_clear_options(
                                      SSL_CTX_set_options(options,
                                                          r.set_options),
                                      r.clear_options),
                              aborted |-> NoAbort]

\* a context with any options, a provider built with any of the versions
InitProtocols ==
    /\ sslopts \in SUBSET OptionBits
    /\ protobuild \in SUBSET ProtoVersions
    /\ protolast = [op |-> "none", tls_versions |-> 0, before |-> {},
                    aborted |-> NoAbort]
    /\ OnlyProtocolsUsed

SetProtocols(tls_versions) ==
    LET r == isc_tlsctx_set_protocols(sslopts, tls_versions, protobuild)
    IN  /\ protolast.aborted = NoAbort
        /\ sslopts' = r.options
        /\ protolast' = [op |-> "set_protocols",
                         tls_versions |-> tls_versions,
                         before |-> sslopts, aborted |-> r.aborted]
        /\ UNCHANGED protobuild
        /\ UNCHANGED other_than_protocols

NextProtocols == \E tls_versions \in VersionMasks : SetProtocols(tls_versions)

SpecProtocols == InitProtocols /\ [][NextProtocols]_pvars

\* the versions of the mask of the last call
LastVersions == {v \in ProtoVersions : HasBit(protolast.tls_versions, v)}

\* the mask of the last call breaks the contract of set_protocols
LastMaskBad ==
    \/ protolast.tls_versions = 0
    \/ protolast.tls_versions >= 2 * ISC_TLS_PROTO_VER_1_3
    \/ \E v \in LastVersions : v \notin protobuild

\* the option bit that disables a version
DisableBit(v) ==
    IF v = ISC_TLS_PROTO_VER_1_2 THEN SSL_OP_NO_TLSv1_2 ELSE SSL_OP_NO_TLSv1_3

\* C25: after isc_tlsctx_set_protocols with a non-zero mask of supported
\* versions, the disable bit of each known version the provider has is set
\* exactly when the version is not in the mask, whatever the options were
\* before, and the other options are unchanged; a zero mask, a bit outside
\* the known versions and an unsupported version in the mask abort.
ProtocolsMatchMask ==
    (protolast.op = "set_protocols") =>
        /\ (protolast.aborted # NoAbort) <=> LastMaskBad
        /\ (protolast.aborted = NoAbort) =>
               /\ \A v \in protobuild :
                      (DisableBit(v) \in sslopts) <=> (v \notin LastVersions)
               /\ \A b \in OptionBits \ {DisableBit(v) : v \in protobuild} :
                      (b \in sslopts) <=> (b \in protolast.before)
        /\ (protolast.aborted # NoAbort) => sslopts = protolast.before

\* C25 witness: a call with only TLS 1.3 in the mask has turned a context
\* that allowed 1.2 and forbade 1.3 into one that forbids 1.2 and allows 1.3
ProtocolsMatchMaskWitness ==
    /\ protolast.op = "set_protocols"
    /\ protolast.aborted = NoAbort
    /\ protolast.tls_versions = ISC_TLS_PROTO_VER_1_3
    /\ protobuild = ProtoVersions
    /\ SSL_OP_NO_TLSv1_3 \in protolast.before
    /\ SSL_OP_NO_TLSv1_2 \notin protolast.before
    /\ SSL_OP_NO_TLSv1_3 \notin sslopts
    /\ SSL_OP_NO_TLSv1_2 \in sslopts

(* ================= server contexts (tls.c) ============================== *)

ISC_R_TLSERROR == "ISC_R_TLSERROR"

\* the two builds: OPENSSL_VERSION_NUMBER < 0x30000000L and the rest
Builds == {"pre3", "v3"}

\* the kinds of provider object the two functions handle
Objects == {"ctx", "cert", "pkey", "eckey", "params_pkey", "pkey_ctx",
            "dh", "file"}

\* no provider object exists
EmptyHeap == [refs |-> [o \in Objects |-> 0],
              owns |-> [o \in Objects |-> {}]]

\* a provider constructor: one more reference to an object of kind o
alloc(h, o) == [h EXCEPT !.refs[o] = @ + 1]

RECURSIVE release(_, _)
RECURSIVE release_all(_, _)

\* a provider destructor called on o: one reference less, and the object
\* that loses its last reference drops the references it holds
release(h, o) ==
    LET h1 == [h EXCEPT !.refs[o] = @ - 1]
    IN  IF h1.refs[o] = 0
          THEN release_all([h1 EXCEPT !.owns[o] = {}], h.owns[o])
          ELSE h1

\* the references a destroyed object held are dropped one by one
release_all(h, held) ==
    IF held = {}
      THEN h
      ELSE LET o == CHOOSE x \in held : TRUE
           IN  release_all(release(h, o), held \ {o})

\* owner takes a reference of its own to o (SSL_CTX_use_certificate,
\* SSL_CTX_use_PrivateKey, EVP_PKEY_set1_EC_KEY)
own(h, owner, o) ==
    [h EXCEPT !.refs[o] = @ + 1, !.owns[owner] = @ \cup {o}]

\* owner takes over the caller's reference to o and drops the object it
\* held before (SSL_CTX_set0_tmp_dh_pkey)
own0(h, owner, o) ==
    IF o \in h.owns[owner]
      THEN [h EXCEPT !.refs[o] = @ - 1]
      ELSE [h EXCEPT !.owns[owner] = @ \cup {o}]

\* no call is in progress and none has been made, in a program built as
\* build
ServerIdle(build) ==
              [build |-> build,
               fn |-> "none", pc |-> "idle", ephemeral |-> FALSE,
               ctx |-> FALSE, cert |-> FALSE, pkey |-> FALSE,
               eckey |-> FALSE, pkey_ctx |-> FALSE, params_pkey |-> FALSE,
               dh |-> FALSE, file |-> FALSE,
               result |-> "none", ctxp |-> FALSE, failed |-> "none",
               aborted |-> NoAbort]

\* the provider calls of the ephemeral path whose result is not looked at
\* (lines 390-423), in the order they are made
Unchecked == <<"ASN1_INTEGER_set", "X509_gmtime_adj(notBefore)",
               "X509_gmtime_adj(notAfter)", "X509_set_pubkey",
               "X509_NAME_add_entry_by_txt(C)",
               "X509_NAME_add_entry_by_txt(O)",
               "X509_NAME_add_entry_by_txt(CN)", "X509_set_issuer_name",
               "X509_sign">>

\* the place of an unchecked call in that order, 0 for any other call
RECURSIVE unchecked_index(_, _)
unchecked_index(pc, i) ==
    IF i > Len(Unchecked)
      THEN 0
      ELSE IF Unchecked[i] = pc THEN i ELSE unchecked_index(pc, i + 1)

\* the provider call that failed first in this call, if any
note_failure(s, ok) ==
    IF ok \/ s.failed # "none" THEN s ELSE [s EXCEPT !.failed = s.pc]

\* isc_tlsctx_createserver up to its first provider call
createserver_begin(s, keyfile, certfile, ctxp_set) ==
    IF ctxp_set
      THEN Abort(s, "createserver: REQUIRE(*ctxp == NULL)")
      ELSE IF (keyfile = NULL) # (certfile = NULL)
             THEN Abort(s, "createserver: REQUIRE(keyfile, certfile)")
             ELSE [ServerIdle(s.build) EXCEPT
                       !.fn = "createserver",
                       !.pc = "TLS_server_method",
                       !.ephemeral = (keyfile = NULL /\ certfile = NULL)]

\* the ssl_error label that leaves the parameter context allocated
createserver_ssl_error_keeps_pkey_ctx(s, h, build) ==
    LET h1 == IF s.ctx THEN release(h, "ctx") ELSE h
        h2 == IF s.cert THEN release(h1, "cert") ELSE h1
        h3 == IF s.pkey THEN release(h2, "pkey") ELSE h2
        h4 == IF build = "pre3"
                THEN IF s.eckey THEN release(h3, "eckey") ELSE h3
                ELSE IF s.params_pkey
                       THEN release(h3, "params_pkey")
                       ELSE h3
    IN  [srv |-> [s EXCEPT !.pc = "idle", !.result = ISC_R_TLSERROR],
         heap |-> h4]

\* the ssl_error label: what the locals point to is freed, *ctxp is left
createserver_ssl_error(s, h, build) ==
    LET h1 == IF s.ctx THEN release(h, "ctx") ELSE h
        h2 == IF s.cert THEN release(h1, "cert") ELSE h1
        h3 == IF s.pkey THEN release(h2, "pkey") ELSE h2
        h4 == IF build = "pre3"
                THEN IF s.eckey THEN release(h3, "eckey") ELSE h3
                ELSE LET h5 == IF s.params_pkey
                                 THEN release(h3, "params_pkey")
                                 ELSE h3
                     IN  IF s.pkey_ctx THEN release(h5, "pkey_ctx") ELSE h5
    IN  [srv |-> [s EXCEPT !.pc = "idle", !.result = ISC_R_TLSERROR],
         heap |-> h4]

\* the end of the function: sslkeylogfile_init(ctx); *ctxp = ctx
createserver_success(s, h) ==
    [srv |-> [s EXCEPT !.pc = "idle", !.result = ISC_R_SUCCESS,
                       !.ctxp = TRUE],
     heap |-> h]

\* the function goes on to its next provider call
createserver_goto(s, h, pc) == [srv |-> [s EXCEPT !.pc = pc], heap |-> h]

\* one provider call of isc_tlsctx_createserver and the code up to the next
\* one; ok tells whether the provider call succeeds
createserver_step(s0, h, build, ok) ==
    LET s == note_failure(s0, ok)
        pc == s.pc
    IN  CASE unchecked_index(pc, 1) > 0 ->
               \* lines 390-423: the result is dropped
               IF unchecked_index(pc, 1) < Len(Unchecked)
                 THEN createserver_goto(s, h,
                          Unchecked[unchecked_index(pc, 1) + 1])
                 ELSE createserver_goto(s, h, "SSL_CTX_use_certificate")
          [] ~ok /\ pc = "EVP_PKEY_CTX_new" ->
               \* line 366 has stored NULL in pkey_ctx
               createserver_ssl_error([s EXCEPT !.pkey_ctx = FALSE], h,
                                      build)
          [] ~ok /\ pc # "EVP_PKEY_CTX_new" ->
               createserver_ssl_error(s, h, build)
          [] pc = "TLS_server_method" ->
               createserver_goto(s, h, "SSL_CTX_new")
          [] pc = "SSL_CTX_new" ->
               createserver_goto([s EXCEPT !.ctx = TRUE], alloc(h, "ctx"),
                   IF ~s.ephemeral
                     THEN "SSL_CTX_use_certificate_chain_file"
                     ELSE IF build = "pre3"
                            THEN "EC_KEY_new_by_curve_name"
                            ELSE "EVP_PKEY_CTX_new_from_name")
          \* OpenSSL < 3.0, lines 299-343
          [] pc = "EC_KEY_new_by_curve_name" ->
               createserver_goto([s EXCEPT !.eckey = TRUE],
                                 alloc(h, "eckey"), "EC_KEY_generate_key")
          [] pc = "EC_KEY_generate_key" ->
               createserver_goto(s, h, "EVP_PKEY_new")
          [] pc = "EVP_PKEY_new" ->
               createserver_goto([s EXCEPT !.pkey = TRUE],
                                 alloc(h, "pkey"), "EVP_PKEY_set1_EC_KEY")
          [] pc = "EVP_PKEY_set1_EC_KEY" ->
               \* EC_KEY_free(eckey); eckey = NULL
               createserver_goto([s EXCEPT !.eckey = FALSE],
                                 release(own(h, "pkey", "eckey"), "eckey"),
                                 "X509_new")
          \* OpenSSL >= 3.0, lines 346-383
          [] pc = "EVP_PKEY_CTX_new_from_name" ->
               createserver_goto([s EXCEPT !.pkey_ctx = TRUE],
                                 alloc(h, "pkey_ctx"),
                                 "EVP_PKEY_paramgen_init")
          [] pc = "EVP_PKEY_paramgen_init" ->
               createserver_goto(s, h,
                                 "EVP_PKEY_CTX_set_ec_paramgen_curve_nid")
          [] pc = "EVP_PKEY_CTX_set_ec_paramgen_curve_nid" ->
               createserver_goto(s, h, "EVP_PKEY_paramgen")
          [] pc = "EVP_PKEY_paramgen" ->
               \* EVP_PKEY_CTX_free(pkey_ctx), the pointer is not reset
               createserver_goto([s EXCEPT !.params_pkey = TRUE],
                                 release(alloc(h, "params_pkey"),
                                         "pkey_ctx"),
                                 "EVP_PKEY_CTX_new")
          [] pc = "EVP_PKEY_CTX_new" ->
               createserver_goto([s EXCEPT !.pkey_ctx = TRUE],
                                 alloc(h, "pkey_ctx"),
                                 "EVP_PKEY_keygen_init")
          [] pc = "EVP_PKEY_keygen_init" ->
               createserver_goto(s, h, "EVP_PKEY_keygen")
          [] pc = "EVP_PKEY_keygen" ->
               \* EVP_PKEY_free(params_pkey); EVP_PKEY_CTX_free(pkey_ctx)
               \* and both pointers set to NULL
               createserver_goto([s EXCEPT !.pkey = TRUE,
                                           !.params_pkey = FALSE,
                                           !.pkey_ctx = FALSE],
                                 release(release(alloc(h, "pkey"),
                                                 "params_pkey"),
                                         "pkey_ctx"),
                                 "X509_new")
          \* both builds, lines 386-434
          [] pc = "X509_new" ->
               createserver_goto([s EXCEPT !.cert = TRUE],
                                 alloc(h, "cert"), Unchecked[1])
          [] pc = "SSL_CTX_use_certificate" ->
               createserver_goto(s, own(h, "ctx", "cert"),
                                 "SSL_CTX_use_PrivateKey")
          [] pc = "SSL_CTX_use_PrivateKey" ->
               \* X509_free(cert); EVP_PKEY_free(pkey)
               createserver_success(s,
                   release(release(own(h, "ctx", "pkey"), "cert"), "pkey"))
          \* the files are given, lines 436-444
          [] pc = "SSL_CTX_use_certificate_chain_file" ->
               createserver_goto(s, h, "SSL_CTX_use_PrivateKey_file")
          [] pc = "SSL_CTX_use_PrivateKey_file" ->
               createserver_success(s, h)

\* isc_tlsctx_load_dhparams up to its first provider call
load_dhparams_begin(s, build) ==
    IF ~s.ctxp
      THEN Abort(s, "load_dhparams: REQUIRE(ctx != NULL)")
      ELSE [s EXCEPT !.fn = "load_dhparams",
                     !.pc = IF build = "pre3" THEN "fopen"
                                              ELSE "BIO_new_file",
                     !.dh = FALSE, !.file = FALSE,
                     !.result = "none", !.failed = "none"]

\* isc_tlsctx_load_dhparams returns
load_dhparams_return(s, h, value) ==
    [srv |-> [s EXCEPT !.pc = "idle", !.result = value], heap |-> h]

\* the OpenSSL >= 3.0 failure of SSL_CTX_set0_tmp_dh_pkey, lines 632-636
load_dhparams_set0_failed(s, h) ==
    load_dhparams_return(s, release(release(h, "file"), "dh"), "false")

\* one provider call of isc_tlsctx_load_dhparams and the code up to the next
load_dhparams_step(s0, h, ok) ==
    LET s == note_failure(s0, ok)
        pc == s.pc
    IN  CASE pc = "fopen" ->
               IF ok
                 THEN [srv |-> [s EXCEPT !.file = TRUE,
                                         !.pc = "PEM_read_DHparams"],
                       heap |-> alloc(h, "file")]
                 ELSE load_dhparams_return(s, h, "false")
          [] pc = "PEM_read_DHparams" ->
               \* fclose(paramfile) whatever was read
               IF ok
                 THEN [srv |-> [s EXCEPT !.dh = TRUE, !.pc = "DH_check"],
                       heap |-> alloc(release(h, "file"), "dh")]
                 ELSE load_dhparams_return(s, release(h, "file"), "false")
          [] pc = "DH_check" ->
               IF ok
                 THEN [srv |-> [s EXCEPT !.pc = "SSL_CTX_set_tmp_dh"],
                       heap |-> h]
                 ELSE load_dhparams_return(s, release(h, "dh"), "false")
          [] pc = "SSL_CTX_set_tmp_dh" ->
               \* the context keeps a copy of its own, DH_free(dh) either way
               load_dhparams_return(s, release(h, "dh"),
                                    IF ok THEN "true" ELSE "false")
          [] pc = "BIO_new_file" ->
               IF ok
                 THEN [srv |-> [s EXCEPT !.file = TRUE,
                                         !.pc = "PEM_read_bio_Parameters"],
                       heap |-> alloc(h, "file")]
                 ELSE load_dhparams_return(s, h, "false")
          [] pc = "PEM_read_bio_Parameters" ->
               IF ok
                 THEN [srv |-> [s EXCEPT !.dh = TRUE,
                                         !.pc = "SSL_CTX_set0_tmp_dh_pkey"],
                       heap |-> alloc(h, "dh")]
                 ELSE load_dhparams_return(s, release(h, "file"), "false")
          [] pc = "SSL_CTX_set0_tmp_dh_pkey" ->
               IF ok
                 THEN load_dhparams_return(s,
                          release(own0(h, "ctx", "dh"), "file"), "true")
                 ELSE load_dhparams_set0_failed(s, h)

InitServer ==
    /\ \E build \in Builds : srv = ServerIdle(build)
    /\ heap = EmptyHeap
    /\ OnlyServerUsed

\* the process is alive and no call is in progress
ServerReady == srv.aborted = NoAbort /\ srv.pc = "idle"

\* a call of isc_tlsctx_createserver(keyfile, certfile, ctxp)
CreateserverCall(keyfile, certfile) ==
    /\ ServerReady
    /\ srv' = createserver_begin(srv, keyfile, certfile, srv.ctxp)
    /\ UNCHANGED heap
    /\ UNCHANGED other_than_server

CreateserverStep(ok) ==
    /\ srv.aborted = NoAbort
    /\ srv.fn = "createserver"
    /\ srv.pc # "idle"
    /\ LET r == createserver_step(srv, heap, srv.build, ok)
       IN  /\ srv' = r.srv
           /\ heap' = r.heap
    /\ UNCHANGED other_than_server

\* a call of isc_tlsctx_load_dhparams(ctx, dhparams_file)
LoadDhparamsCall ==
    /\ ServerReady
    /\ srv' = load_dhparams_begin(srv, srv.build)
    /\ UNCHANGED heap
    /\ UNCHANGED other_than_server

LoadDhparamsStep(ok) ==
    /\ srv.aborted = NoAbort
    /\ srv.fn = "load_dhparams"
    /\ srv.pc # "idle"
    /\ LET r == load_dhparams_step(srv, heap, ok)
       IN  /\ srv' = r.srv
           /\ heap' = r.heap
    /\ UNCHANGED other_than_server

\* what the caller can pass as a file name: NULL or a name
FileNames == {NULL, 1}

NextServer ==
    \/ \E keyfile \in FileNames, certfile \in FileNames :
           CreateserverCall(keyfile, certfile)
    \/ \E ok \in BOOLEAN : CreateserverStep(ok)
    \/ LoadDhparamsCall
    \/ \E ok \in BOOLEAN : LoadDhparamsStep(ok)

SpecServer == InitServer /\ [][NextServer]_svars

\* a call has returned to its caller
ServerReturned ==
    srv.aborted = NoAbort /\ srv.pc = "idle" /\ srv.result # "none"

\* the call that returned last is one of isc_tlsctx_createserver
CreateserverReturned == ServerReturned /\ srv.fn = "createserver"

\* the objects that hold a reference to an object of kind o
Owners(o) == {w \in Objects : o \in heap.owns[w]}

\* the references to objects of kind o the caller is left with
Returned(o) == IF o = "ctx" /\ srv.ctxp THEN 1 ELSE 0

\* C26: when isc_tlsctx_createserver returns, a provider step that failed
\* has made it return ISC_R_TLSERROR with *ctxp still NULL, and *ctxp is set
\* only together with ISC_R_SUCCESS
ProviderFailureIsTlsError ==
    CreateserverReturned =>
        /\ srv.failed # "none" =>
               srv.result = ISC_R_TLSERROR /\ ~srv.ctxp
        /\ srv.ctxp => srv.result = ISC_R_SUCCESS

\* C27: when isc_tlsctx_createserver or isc_tlsctx_load_dhparams returns,
\* the only references left are the caller's one to the returned context
\* and those of live objects to what they own (nothing released twice,
\* nothing left allocated), and after ISC_R_TLSERROR no object is left
ReleasedOnReturn ==
    ServerReturned =>
        /\ \A o \in Objects :
               /\ heap.refs[o] = Cardinality(Owners(o)) + Returned(o)
               /\ heap.owns[o] # {} => heap.refs[o] > 0
        /\ srv.result = ISC_R_TLSERROR =>
               \A o \in Objects : heap.refs[o] = 0
        /\ heap.refs["file"] = 0

\* installing the private key has failed with the context, the certificate
\* and the key allocated, and the function has returned
ReleasedOnReturnWitness ==
    /\ CreateserverReturned
    /\ srv.failed = "SSL_CTX_use_PrivateKey"
    /\ srv.result = ISC_R_TLSERROR

(* ================= ALPN scan (tls.c) ==================================== *)

SSL_TLSEXT_ERR_OK == "SSL_TLSEXT_ERR_OK"
SSL_TLSEXT_ERR_NOACK == "SSL_TLSEXT_ERR_NOACK"

\* ISC_TLS_DOT_PROTO_ALPN_ID, the bytes of "dot"
ISC_TLS_DOT_PROTO_ALPN_ID == <<100, 111, 116>>

\* the bytes of "h2"
H2_PROTO_ALPN_ID == <<104, 50>>

\* the protocol identifiers a peer may offer: dot, h2, the empty one, a
\* prefix of dot, dot followed by a byte, and one whose bytes are the
\* length-prefixed form of dot
Payloads == {ISC_TLS_DOT_PROTO_ALPN_ID, H2_PROTO_ALPN_ID, <<>>,
             <<100, 111>>, <<100, 111, 116, 115>>, <<3, 100, 111, 116>>}

\* a protocol identifier prepended by its length
Prefixed(payload) == <<Len(payload)>> \o payload

\* DOT_PROTO_ALPN: dot prepended by its length
DOT_PROTO_ALPN == Prefixed(ISC_TLS_DOT_PROTO_ALPN_ID)

\* the wire form of a list of protocol identifiers
RECURSIVE Wire(_)
Wire(records) ==
    IF records = <<>>
      THEN <<>>
      ELSE Prefixed(Head(records)) \o Wire(Tail(records))

\* in[i] of the C arrays, which count from 0
At(in, i) == in[i + 1]

\* memcmp(&in[i], key, key_len) == 0
memcmp_equal(in, i, key) ==
    \A j \in 0 .. (Len(key) - 1) : At(in, i + j) = At(key, j)

\* the scan has found nothing
NotFound == [ret |-> FALSE, pout |-> 0, pout_len |-> 0]

\* the loop of the scan that moves on by one byte
RECURSIVE protoneg_check_protocol_loop_bytewise(_, _, _)
protoneg_check_protocol_loop_bytewise(in, key, i) ==
    IF ~(i + Len(key) <= Len(in))
      THEN NotFound
      ELSE IF memcmp_equal(in, i, key)
             THEN [ret |-> TRUE, pout |-> i + 1, pout_len |-> At(in, i)]
             ELSE protoneg_check_protocol_loop_bytewise(in, key, i + 1)

\* the loop of protoneg_check_protocol from offset i on; pout is the offset
\* in the list the out pointer is set to
RECURSIVE protoneg_check_protocol_loop(_, _, _)
protoneg_check_protocol_loop(in, key, i) ==
    IF ~(i + Len(key) <= Len(in))
      THEN NotFound
      ELSE IF memcmp_equal(in, i, key)
             THEN [ret |-> TRUE, pout |-> i + 1, pout_len |-> At(in, i)]
             ELSE protoneg_check_protocol_loop(in, key, i + At(in, i) + 1)

protoneg_check_protocol(in, key) == protoneg_check_protocol_loop(in, key, 0)

dot_select_next_protocol(in) == protoneg_check_protocol(in, DOT_PROTO_ALPN)

\* the ALPN selection callback of a DoT server
dot_alpn_select_proto_cb(in) ==
    LET r == dot_select_next_protocol(in)
    IN  [r EXCEPT !.ret = IF ~r.ret THEN SSL_TLSEXT_ERR_NOACK
                                    ELSE SSL_TLSEXT_ERR_OK]

\* the lists of at most n protocol identifiers
RECURSIVE Offers(_)
Offers(n) ==
    IF n = 0
      THEN {<<>>}
      ELSE Offers(n - 1) \cup
           {<<p>> \o rest : p \in Payloads,
                            rest \in {o \in Offers(n - 1) : Len(o) = n - 1}}

InitAlpn ==
    /\ \E records \in Offers(MaxRecords), needle \in Payloads :
           alpn = [records |-> records, in |-> Wire(records),
                   key |-> Prefixed(needle), called |-> "none",
                   out |-> NotFound]
    /\ OnlyAlpnUsed

\* the scan is run on the offered list for the needle
AlpnScan ==
    /\ alpn.called = "none"
    /\ alpn' = [alpn EXCEPT
                    !.called = "protoneg_check_protocol",
                    !.out = protoneg_check_protocol(alpn.in, alpn.key)]
    /\ UNCHANGED other_than_alpn

\* the DoT server is offered the list
AlpnDotSelect ==
    /\ alpn.called = "none"
    /\ alpn' = [alpn EXCEPT
                    !.called = "dot_alpn_select_proto_cb",
                    !.out = dot_alpn_select_proto_cb(alpn.in)]
    /\ UNCHANGED other_than_alpn

NextAlpn == AlpnScan \/ AlpnDotSelect

SpecAlpn == InitAlpn /\ [][NextAlpn]_avars

\* the offset in the wire form at which record k of the offered list starts
RecordOffset(k) == Len(Wire(SubSeq(alpn.records, 1, k - 1)))

\* the records of the offered list that are the protocol identifier needle
RecordsEqual(needle) ==
    {k \in 1 .. Len(alpn.records) : alpn.records[k] = needle}

\* the bytes the answer of the scan points at
Selected == SubSeq(alpn.in, alpn.out.pout + 1,
                   alpn.out.pout + alpn.out.pout_len)

\* C28: the scan of a well-formed list answers true exactly when the needle
\* is one of its records, then with the payload offset and length of such a
\* record, and the DoT selector answers OK with "dot" when dot is offered
\* (as in dot, h2) and NOACK when it is not (as in h2 alone)
ScanFindsCompleteRecords ==
    /\ alpn.called = "protoneg_check_protocol" =>
           LET needle == Tail(alpn.key)
           IN  /\ alpn.out.ret <=> RecordsEqual(needle) # {}
               /\ alpn.out.ret =>
                      /\ \E k \in RecordsEqual(needle) :
                             alpn.out.pout = RecordOffset(k) + 1
                      /\ alpn.out.pout_len = Len(needle)
                      /\ Selected = needle
    /\ alpn.called = "dot_alpn_select_proto_cb" =>
           /\ alpn.out.ret = IF RecordsEqual(ISC_TLS_DOT_PROTO_ALPN_ID) # {}
                               THEN SSL_TLSEXT_ERR_OK
                               ELSE SSL_TLSEXT_ERR_NOACK
           /\ alpn.out.ret = SSL_TLSEXT_ERR_OK =>
                  Selected = ISC_TLS_DOT_PROTO_ALPN_ID
           /\ alpn.records = <<ISC_TLS_DOT_PROTO_ALPN_ID, H2_PROTO_ALPN_ID>>
                  => alpn.out.ret = SSL_TLSEXT_ERR_OK
           /\ alpn.records = <<H2_PROTO_ALPN_ID>>
                  => alpn.out.ret = SSL_TLSEXT_ERR_NOACK

\* dot has been looked for in a list that holds it inside the payload of the
\* first record, as the start of the second and as the third record, and
\* the third record was found
ScanFindsCompleteRecordsWitness ==
    /\ alpn.called = "protoneg_check_protocol"
    /\ alpn.records = <<<<3, 100, 111, 116>>, <<100, 111, 116, 115>>,
                        ISC_TLS_DOT_PROTO_ALPN_ID>>
    /\ alpn.key = DOT_PROTO_ALPN
    /\ alpn.out = [ret |-> TRUE, pout |-> 11, pout_len |-> 3]

(* ================= growth by distinct keys (hashmap.c) ================== *)

\* isc_hashmap_add of a key that is in neither table, on a map whose nodes
\* are left out: count and the tables' sizes are kept, pending is the
\* number of entries the source table still holds
add_distinct(g) ==
    LET hm0 == g.hm
        started == ~rehashing_in_progress(hm0) /\ over_threshold(hm0)
        hm1 == IF started THEN hashmap_rehash_start_grow(hm0) ELSE hm0
        pending == IF started THEN hm0.count ELSE g.pending
        \* hashmap_rehash_one
        migrate == rehashing_in_progress(hm1)
        hm2 == IF migrate /\ pending = 0
                 THEN [hashmap_free_table(hm1,
                                          hashmap_nexttable(hm1.hindex),
                                          FALSE) EXCEPT !.hiter = 0]
                 ELSE hm1
    IN  [g EXCEPT !.hm = [hm2 EXCEPT !.count = @ + 1],
                  !.pending = IF migrate /\ pending > 0
                                THEN pending - 1
                                ELSE pending,
                  !.adds = @ + 1]

InitGrowth ==
    /\ \E bits \in 1 .. MaxCreateBits :
           growth = [hm |-> isc_hashmap_create(bits, TRUE), pending |-> 0,
                     adds |-> 0, bits |-> bits]
    /\ OnlyGrowthUsed

\* a key the map does not hold is added
GrowthAdd ==
    /\ growth.adds < MaxAdds
    /\ growth.hm.aborted = NoAbort
    /\ growth' = add_distinct(growth)
    /\ UNCHANGED other_than_growth

NextGrowth == GrowthAdd

SpecGrowth == InitGrowth /\ [][NextGrowth]_gvars

\* floor(409 * 2^bits / 1024)
FortyPercent(bits) == (409 * (2 ^ bits)) \div 1024

ShiftHashVals == {0, 3 * (2 ^ (HashWidth - 2))}

\* no deletion has been made
NoRemoval == [key |-> NULL, pos |-> 0]

InitShift ==
    /\ chain = [hm |-> isc_hashmap_create(ShiftBits, TRUE), keys |-> 0,
                dels |-> 0, removed |-> NoRemoval]
    /\ OnlyShiftUsed

\* isc_hashmap_add of the next key, whose hash value is hashval
ShiftAdd(hashval) ==
    LET key == chain.keys + 1
        r == isc_hashmap_add(chain.hm, hashval, key, KeySize(key), 1)
    IN  /\ chain.keys < MaxChain
        /\ chain.dels = 0
        /\ chain.hm.aborted = NoAbort
        /\ chain' = [chain EXCEPT !.hm = r.hm, !.keys = key]
        /\ UNCHANGED other_than_shift

\* isc_hashmap_delete of the key stored at pos
ShiftDelete(pos) ==
    LET node == NodeAt(chain.hm, chain.hm.hindex, pos)
        r == isc_hashmap_delete(chain.hm, node.hashval, node.key,
                                node.keysize)
    IN  /\ chain.dels < MaxDeletes
        /\ chain.hm.aborted = NoAbort
        /\ ~rehashing_in_progress(chain.hm)
        /\ node.key # NULL
        /\ chain' = [chain EXCEPT !.hm = r.hm, !.dels = @ + 1,
                                  !.removed = [key |-> node.key,
                                               pos |-> pos]]
        /\ UNCHANGED other_than_shift

NextShift ==
    \/ \E hashval \in ShiftHashVals : ShiftAdd(hashval)
    \/ \E pos \in 0 .. HASHSIZE(ShiftBits) - 1 : ShiftDelete(pos)

SpecShift == InitShift /\ [][NextShift]_hvars

\* the node at the slot i after pos in the table of hm, around its end
Following(hm, pos, i) ==
    NodeAt(hm, hm.hindex, (pos + i) % hm.tables[hm.hindex].size)

\* the number of consecutive nodes with psl > 0 that follow pos
RunLength(hm, pos) ==
    CHOOSE n \in 0 .. hm.tables[hm.hindex].size - 1 :
        /\ \A i \in 1 .. n : /\ Following(hm, pos, i).key # NULL
                             /\ Following(hm, pos, i).psl > 0
        /\ \/ n = hm.tables[hm.hindex].size - 1
           \/ Following(hm, pos, n + 1).key = NULL
           \/ Following(hm, pos, n + 1).psl = 0

\* the active table of hm holds key in a node of this psl
HasPsl(hm, key, psl) ==
    \E q \in 0 .. hm.tables[hm.hindex].size - 1 :
        /\ NodeAt(hm, hm.hindex, q).key = key
        /\ NodeAt(hm, hm.hindex, q).psl = psl

\* C35: deleting the node at position p moves each of the consecutive
\* nodes with psl > 0 that follow it one slot back with its psl one less,
\* around the end of the table, stops at the first empty slot or the first
\* node with psl = 0, clears the slot of the last node moved and leaves
\* every other slot as it was; with keys 1..7 at psl 0..6, deleting key 1
\* leaves keys 2..7 at psl 0..5 (a delete that starts a shrink first moves
\* an entry to the new table as well and is not looked at here)
DeleteShiftsBack ==
    [][(chain'.dels = chain.dels + 1
           /\ ~rehashing_in_progress(chain'.hm)) =>
           LET hm == chain.hm
               p == chain'.removed.pos
               size == hm.tables[hm.hindex].size
               n == RunLength(hm, p)
           IN  /\ chain'.hm.hindex = hm.hindex
               /\ chain'.hm.count = hm.count - 1
               /\ \A i \in 0 .. n - 1 :
                      Following(chain'.hm, p, i)
                          = [Following(hm, p, i + 1) EXCEPT !.psl = @ - 1]
               /\ Following(chain'.hm, p, n) = ZeroNode
               /\ \A i \in n + 1 .. size - 1 :
                      Following(chain'.hm, p, i) = Following(hm, p, i)
               /\ (/\ hm.count = 7
                   /\ \A k \in 1 .. 7 : HasPsl(hm, k, k - 1)
                   /\ chain'.removed.key = 1)
                      => \A k \in 2 .. 7 : HasPsl(chain'.hm, k, k - 2)
      ]_hvars

\* key 1, the first of seven keys of one home slot, has been deleted from
\* a chain that runs around the end of the table: keys 2..7 hold psl 0..5
DeleteShiftsBackWitness ==
    /\ chain.keys = 7
    /\ chain.dels = 1
    /\ chain.removed.key = 1
    /\ chain.hm.count = 6
    /\ \A k \in 2 .. 7 :
           /\ HasPsl(chain.hm, k, k - 2)
           /\ Following(chain.hm, chain.removed.pos, k - 2).key = k
    /\ chain.removed.pos + 5 >= chain.hm.tables[chain.hm.hindex].size

(* ====================== concurrent cache adds (tls.c) =================== *)

\* isc_tlsctx_cache_add from the RWLOCK to the conditions of its branches:
\* the result of isc_ht_find and the slot of the entry as the conditions
\* read it
isc_tlsctx_cache_add_find(c, name, transport, family) ==
    LET tr_offset == transport - 1
        ipv6 == BoolIndex(family = AF_INET6)
        r == isc_ht_find(c.data, name)
    IN  [result |-> r.result,
         slot |-> IF r.result = ISC_R_SUCCESS
                    THEN r.value.ctx[tr_offset][ipv6]
                    ELSE NULL]

\* the branch isc_tlsctx_cache_add takes after it has read result and slot
isc_tlsctx_cache_add_store(c, result, slot, name, transport, family, ctx, given) ==
    LET tr_offset == transport - 1
        ipv6 == BoolIndex(family = AF_INET6)
    IN  IF result = ISC_R_SUCCESS /\ slot # NULL
          THEN [cache |-> c,
                result |-> ISC_R_EXISTS,
                found |-> IF given THEN slot ELSE NULL]
          ELSE IF result = ISC_R_SUCCESS /\ slot = NULL
                 THEN [cache |->
                           [c EXCEPT !.data[name].ctx[tr_offset][ipv6] = ctx],
                       result |-> ISC_R_SUCCESS,
                       found |-> NULL]
                 ELSE LET new == [ZeroEntry EXCEPT
                                      !.present = TRUE,
                                      !.ctx[tr_offset][ipv6] = ctx]
                      IN  [cache |->
                               [c EXCEPT !.data =
                                    isc_ht_add(c.data, name, new).ht],
                           result |-> ISC_R_SUCCESS,
                           found |-> NULL]

\* thread t calls add with a context it owns and comes to the RWLOCK; saw
\* is what the adds that have returned by now installed in the slot
RaceAddCall(t, name, transport, family, ctx, given) ==
    /\ MayCall(t)
    /\ \/ ctxs[ctx] = "rejected"
       \/ /\ ctxs[ctx] = "unused"
          /\ \A c \in Ctxs : c < ctx => ctxs[c] # "unused"
    /\ thr' = [thr EXCEPT ![t] =
                   [Idle EXCEPT !.pc = "add_wait", !.name = name,
                                !.transport = transport, !.family = family,
                                !.ctx = ctx, !.given = given,
                                !.saw = published[<<name, transport,
                                                    family>>]]]
    /\ ctxs' = [ctxs EXCEPT ![ctx] = "passed"]
    /\ UNCHANGED <<cache, refs, mem, published, counts>>
    /\ UNCHANGED other_than_cache

\* RWLOCK(&cache->rwlock, isc_rwlocktype_write) returns
RaceAddLock(t) ==
    /\ thr[t].pc = "add_wait"
    /\ rwlock_available(cache.rwlock, isc_tlsctx_cache_add_locktype)
    /\ cache' = [cache EXCEPT !.rwlock =
                     isc_rwlock_lock(@, isc_tlsctx_cache_add_locktype, t)]
    /\ thr' = [thr EXCEPT ![t].pc = "add_cs"]
    /\ UNCHANGED <<refs, ctxs, mem, published, counts>>
    /\ UNCHANGED other_than_cache

RaceAddFind(t) ==
    LET r == isc_tlsctx_cache_add_find(cache, thr[t].name,
                                       thr[t].transport, thr[t].family)
    IN  /\ thr[t].pc = "add_cs"
        /\ thr' = [thr EXCEPT ![t] =
                       [@ EXCEPT !.pc = "add_found", !.result = r.result,
                                 !.slot = r.slot]]
        /\ UNCHANGED <<cache, refs, ctxs, mem, published, counts>>
        /\ UNCHANGED other_than_cache

RaceAddStore(t) ==
    LET r == isc_tlsctx_cache_add_store(cache, thr[t].result, thr[t].slot,
                                        thr[t].name, thr[t].transport,
                                        thr[t].family, thr[t].ctx,
                                        thr[t].given)
    IN  /\ thr[t].pc = "add_found"
        /\ cache' = r.cache
        /\ thr' = [thr EXCEPT ![t] =
                       [@ EXCEPT !.pc = "add_unlock", !.result = r.result,
                                 !.found = r.found]]
        /\ UNCHANGED <<refs, ctxs, mem, published, counts>>
        /\ UNCHANGED other_than_cache

NextCacheRace ==
    \/ \E t \in Threads, u \in Threads : CacheAttach(t, u)
    \/ \E t \in Threads, name \in Names, transport \in Transports,
          family \in Families, ctx \in Ctxs, given \in BOOLEAN :
           RaceAddCall(t, name, transport, family, ctx, given)
    \/ \E t \in Threads : RaceAddLock(t)
    \/ \E t \in Threads : RaceAddFind(t)
    \/ \E t \in Threads : RaceAddStore(t)
    \/ \E t \in Threads : CacheAddUnlock(t)

SpecCacheRace == InitCache /\ [][NextCacheRace]_cvars

\* C36: of the calls of isc_tlsctx_cache_add that several threads make for
\* one (name, transport, family) at one time, with different contexts, the
\* one that finds no earlier SUCCESS for the slot returns SUCCESS with its
\* context installed, and every other one returns EXISTS with the winner's
\* context in *pfound and its own context in no slot; every context whose
\* add returned SUCCESS stays in its slot, whatever names and slots the
\* other adds are for
OneAddWinsTheSlot ==
    /\ \A t \in Threads :
           (thr[t].pc = "add_unlock") =>
               IF published[SlotOf(t)] = NULL
                 THEN /\ thr[t].result = ISC_R_SUCCESS
                      /\ SlotCtx(cache, SlotOf(t)) = thr[t].ctx
                 ELSE /\ thr[t].result = ISC_R_EXISTS
                      /\ thr[t].found = IF thr[t].given
                                          THEN published[SlotOf(t)]
                                          ELSE NULL
                      /\ published[SlotOf(t)] # thr[t].ctx
                      /\ \A s \in Slots : SlotCtx(cache, s) # thr[t].ctx
    /\ \A s \in Slots :
           /\ published[s] # NULL => SlotCtx(cache, s) = published[s]
           /\ (SlotCtx(cache, s) # NULL /\ published[s] = NULL) =>
                  \E t \in Threads :
                      /\ thr[t].pc = "add_unlock"
                      /\ SlotOf(t) = s
                      /\ thr[t].ctx = SlotCtx(cache, s)
    /\ \A c \in Ctxs :
           ctxs[c] = "cache" =>
               Cardinality({s \in Slots : published[s] = c}) = 1

\* two adds for one slot were in progress at one time: the one about to
\* return EXISTS was called before the winner returned, and it has the
\* winner's context in *pfound
OneAddWinsTheSlotWitness ==
    \E t \in Threads :
        /\ thr[t].pc = "add_unlock"
        /\ thr[t].result = ISC_R_EXISTS
        /\ thr[t].saw = NULL
        /\ thr[t].given
        /\ thr[t].found = published[SlotOf(t)]
        /\ thr[t].found # thr[t].ctx

(* ============== migration of colliding keys (hashmap.c) ================= *)

WideKeys == 1 .. MaxWideKeys

\* hash values of one home slot, the last one, in a table of WideBits bits
WideHashVals == {3 * (2 ^ (HashWidth - 2)), (2 ^ HashWidth) - 1}

\* the keyed hash functions on these keys, up to renaming of the keys
WideHashFunctions ==
    {f \in [WideKeys -> WideHashVals] :
        \A k \in WideKeys : (k + 1 \in WideKeys) => (f[k] <= f[k + 1])}

\* the source table of a rehash of hm
Source(hm) == hm.tables[hashmap_nexttable(hm.hindex)]

\* the step from hm to hm1 has moved the node at the first slot of the
\* source table to its last slot: a backward shift around the table end
WrappedShift(hm, hm1) ==
    /\ rehashing_in_progress(hm)
    /\ rehashing_in_progress(hm1)
    /\ Source(hm).table[1].key # NULL
    /\ Source(hm1).table[Source(hm1).size].key = Source(hm).table[1].key

InitWide ==
    /\ \E f \in WideHashFunctions :
           wide = [hm |-> isc_hashmap_create(WideBits, TRUE), hash |-> f,
                   it |-> NoIter, fresh |-> FALSE, valid |-> FALSE,
                   wrapped |-> FALSE]
    /\ OnlyWideUsed

\* the map is live and no iterator walks it
WideCallable == wide.hm.aborted = NoAbort /\ ~wide.it.exists

\* a wrapping shift is remembered until the rehash it happened in has ended
WideWrapped(hm1) ==
    /\ rehashing_in_progress(hm1)
    /\ wide.wrapped \/ WrappedShift(wide.hm, hm1)

WideAdd(key) ==
    LET r == isc_hashmap_add(wide.hm, wide.hash[key], key, KeySize(key), 1)
    IN  /\ WideCallable
        /\ wide' = [wide EXCEPT !.hm = r.hm, !.wrapped = WideWrapped(r.hm)]
        /\ UNCHANGED other_than_wide

WideDelete(key) ==
    LET r == isc_hashmap_delete(wide.hm, wide.hash[key], key, KeySize(key))
    IN  /\ WideCallable
        /\ wide' = [wide EXCEPT !.hm = r.hm, !.wrapped = WideWrapped(r.hm)]
        /\ UNCHANGED other_than_wide

WideIterCreate ==
    /\ WideCallable
    /\ wide' = [wide EXCEPT !.it = isc_hashmap_iter_create(wide.hm),
                            !.fresh = TRUE, !.valid = FALSE]
    /\ UNCHANGED other_than_wide

WideIterFirst ==
    LET r == isc_hashmap_iter_first(wide.hm, wide.it)
    IN  /\ wide.it.exists
        /\ wide.fresh
        /\ wide' = [wide EXCEPT !.it = r.iter, !.fresh = FALSE,
                                !.valid = (r.result = ISC_R_SUCCESS)]
        /\ UNCHANGED other_than_wide

WideIterNext ==
    LET r == isc_hashmap_iter_next(wide.hm, wide.it)
    IN  /\ wide.it.exists
        /\ wide.valid
        /\ wide' = [wide EXCEPT !.it = r.iter,
                                !.valid = (r.result = ISC_R_SUCCESS)]
        /\ UNCHANGED other_than_wide

WideIterDelcurrentNext ==
    LET r == isc_hashmap_iter_delcurrent_next(wide.hm, wide.it)
    IN  /\ wide.it.exists
        /\ wide.valid
        /\ wide' = [wide EXCEPT !.hm = r.hm, !.it = r.iter,
                                !.valid = (r.result = ISC_R_SUCCESS),
                                !.wrapped = WideWrapped(r.hm)]
        /\ UNCHANGED other_than_wide

WideIterDestroy ==
    /\ wide.it.exists
    /\ wide' = [wide EXCEPT !.it = NoIter, !.fresh = FALSE,
                            !.valid = FALSE]
    /\ UNCHANGED other_than_wide

NextWide ==
    \/ \E key \in WideKeys : WideAdd(key)
    \/ \E key \in WideKeys : WideDelete(key)
    \/ WideIterCreate
    \/ WideIterFirst
    \/ WideIterNext
    \/ WideIterDelcurrentNext
    \/ WideIterDestroy

SpecWide == InitWide /\ [][NextWide]_wvars

\* C37: while a rehash is in progress every slot of the source table below
\* hiter is empty, also after a migration step, a delete or an iterator
\* delcurrent_next has shifted nodes back around the end of the source
\* table; the call that frees the source table finds it without an entry,
\* and count is the number of stored entries before and after it
SourceEmptyBelowHiter ==
    [][/\ rehashing_in_progress(wide'.hm) =>
              \A pos \in 0 .. wide'.hm.hiter - 1 :
                  NodeAt(wide'.hm, hashmap_nexttable(wide'.hm.hindex),
                         pos).key = NULL
       /\ wide'.hm.count = UsedSlots(wide'.hm, 0) + UsedSlots(wide'.hm, 1)
       /\ (rehashing_in_progress(wide.hm)
              /\ ~rehashing_in_progress(wide'.hm)) =>
              UsedSlots(wide.hm, hashmap_nexttable(wide.hm.hindex)) = 0
      ]_wvars

\* a rehash in which a node was shifted back around the end of the source
\* table has moved that node too: hiter stands at the last slot and the
\* source table is empty, ready to be freed
SourceEmptyBelowHiterWitness ==
    /\ rehashing_in_progress(wide.hm)
    /\ wide.wrapped
    /\ wide.hm.hiter = Source(wide.hm).size - 1
    /\ UsedSlots(wide.hm, hashmap_nexttable(wide.hm.hindex)) = 0
    /\ wide.hm.count >= 2

(* ================= ALPN scan of any input (tls.c) ======================= *)

\* the byte values of the lists: record lengths 0, 1 and 3 and the letters
\* of "dot"
RawBytes == {0, 1, 3, 100, 111, 116}

\* the byte sequences of length n
RECURSIVE RawInputs(_)
RawInputs(n) ==
    IF n = 0
      THEN {<<>>}
      ELSE {<<b>> \o rest : b \in RawBytes, rest \in RawInputs(n - 1)}

\* the keys looked for: dot and the empty identifier, prepended by their
\* lengths
RawKeys == {DOT_PROTO_ALPN, Prefixed(<<>>)}

\* the loop of the scan with "i < in_len" as its condition; a memcmp that
\* runs past the end of the input is the last thing it is followed to
RECURSIVE protoneg_check_protocol_offsets_unguarded(_, _, _)
protoneg_check_protocol_offsets_unguarded(in, key, i) ==
    IF ~(i < Len(in))
      THEN <<>>
      ELSE IF i + Len(key) > Len(in)
             THEN <<i>>
             ELSE IF memcmp_equal(in, i, key)
                    THEN <<i>>
                    ELSE <<i>> \o protoneg_check_protocol_offsets_unguarded(
                                      in, key, i + At(in, i) + 1)

\* the loop of protoneg_check_protocol from offset i on: the offsets i at
\* which its body runs, each with a memcmp of key_len bytes at &in[i] and a
\* read of in[i]
RECURSIVE protoneg_check_protocol_offsets(_, _, _)
protoneg_check_protocol_offsets(in, key, i) ==
    IF ~(i + Len(key) <= Len(in))
      THEN <<>>
      ELSE IF memcmp_equal(in, i, key)
             THEN <<i>>
             ELSE <<i>> \o protoneg_check_protocol_offsets(
                               in, key, i + At(in, i) + 1)

InitAlpnRaw ==
    /\ \E n \in 0 .. MaxInLen :
           \E in \in RawInputs(n), key \in RawKeys :
               alpn = [in |-> in, key |-> key, called |-> "none",
                       out |-> NotFound, offsets |-> <<>>]
    /\ OnlyAlpnUsed

\* the scan is run on the bytes received
AlpnRawScan ==
    /\ alpn.called = "none"
    /\ alpn' = [alpn EXCEPT
                    !.called = "protoneg_check_protocol",
                    !.out = protoneg_check_protocol(alpn.in, alpn.key),
                    !.offsets = protoneg_check_protocol_offsets(
                                    alpn.in, alpn.key, 0)]
    /\ UNCHANGED other_than_alpn

NextAlpnRaw == AlpnRawScan

SpecAlpnRaw == InitAlpnRaw /\ [][NextAlpnRaw]_avars

\* the indexes of the input the scan has read
BytesRead ==
    UNION {alpn.offsets[k] .. (alpn.offsets[k] + Len(alpn.key) - 1) :
               k \in 1 .. Len(alpn.offsets)}

\* C40: on every input byte sequence, well-formed or not (zero-length
\* records, a last record longer than the bytes left, no bytes at all), the
\* scan ends after at most in_len steps and reads no byte at an index >=
\* in_len: the offset grows by at least 1 per step and a comparison is made
\* only where all key_len bytes lie inside the input
ScanStaysInside ==
    alpn.called = "protoneg_check_protocol" =>
        /\ \A r \in BytesRead : r >= 0 /\ r < Len(alpn.in)
        /\ \A k \in 1 .. Len(alpn.offsets) :
               /\ alpn.offsets[k] + Len(alpn.key) <= Len(alpn.in)
               /\ k > 1 => alpn.offsets[k] >= alpn.offsets[k - 1] + 1
        /\ Len(alpn.offsets) <= Len(alpn.in)
        /\ alpn.out.ret =>
               alpn.out.pout + alpn.out.pout_len <= Len(alpn.in)

\* dot has been looked for in two zero-length records followed by a record
\* of declared length 3 with two bytes left: the comparisons were made at
\* the two zero-length records and nothing was found
ScanStaysInsideWitness ==
    /\ alpn.called = "protoneg_check_protocol"
    /\ alpn.in = <<0, 0, 3, 100, 111>>
    /\ alpn.key = DOT_PROTO_ALPN
    /\ alpn.offsets = <<0, 1>>
    /\ ~alpn.out.ret

====
